---- MODULE Spec2Model ----
(***************************************************************************)
(* Validator health monitoring of discord-cosmos-validator-monitor.        *)
(*                                                                         *)
(* The model follows the cog revision of the bot:                          *)
(*   cogs/monitoring_tasks.py   MonitoringTasks.monitor_validators and     *)
(*                              check_and_notify_validator_status          *)
(*   utils/api_helpers.py       get_validator_info                         *)
(*   db_manager.py              the validators table                       *)
(*   cogs/validator_commands.py the register command                       *)
(*                                                                         *)
(* Python dicts are functions; the empty dict is << >>.  Python None is    *)
(* the string "None".  Display formatting of embeds (stake, uptime bar)    *)
(* is not state and is left out of the status record.                      *)
(***************************************************************************)
EXTENDS Integers, Sequences, FiniteSets, TLC

VARIABLES
    db,                     \* the validators table: a set of rows
    now,                    \* the wall clock, in monitoring intervals
    slashing_info_cache,    \* MonitoringTasks._slashing_info_cache, per chain
    slashing_params_cache,  \* MonitoringTasks._slashing_params_cache, per chain
    validators_to_monitor,  \* rows of the running cycle still to be checked
    lastPoll,               \* history: what the most recent check did
    chain_prefs,            \* the chain notification preference table: a set of rows
    governance_proposals_cache, \* MonitoringTasks._governance_proposals_cache
    upgrade_plan_cache,     \* _upgrade_plan_cache (cog attribute, bot.py global)
    lastGov,                \* history: the most recent governance poll of a chain
    lastUpg,                \* history: the most recent upgrade poll of a chain
    chains_to_monitor,      \* chains of the running chain cycle still to be polled
    lastCall,               \* history: the most recent command or resolver call
    alert_log               \* history: alerts counted over a scenario

vars == <<db, now, slashing_info_cache, slashing_params_cache,
          validators_to_monitor, lastPoll, chain_prefs,
          governance_proposals_cache, upgrade_plan_cache, lastGov, lastUpg,
          chains_to_monitor, lastCall, alert_log>>

\* what the validator health task and the register command leave alone
chainVars == <<chain_prefs, governance_proposals_cache, upgrade_plan_cache,
               lastGov, lastUpg, chains_to_monitor, alert_log>>

\* what the governance and upgrade tasks leave alone
validatorVars == <<db, now, slashing_info_cache, slashing_params_cache,
                   validators_to_monitor, lastPoll, lastCall, alert_log>>

----------------------------------------------------------------------------
(* Bounds and domains *)

MaxCycles == 3

Users == {"u1"}
Monikers == {"m1", "m2"}
None == "None"
EmptyDict == << >>

\* cogs/monitoring_tasks.py: MISSED_BLOCKS_THRESHOLD = 10
MISSED_BLOCKS_THRESHOLD == 10

\* bot.supported_chains: one chain that tracks missed blocks and one whose
\* entry has no missed_blocks_supported key
SupportedChains == {"empe", "lumera"}
ChainNames == SupportedChains \cup {"osmosis"}
ChainConfig(chain_name) ==
    IF chain_name = "empe"
    THEN [rest_api_url |-> "https://rest.empe", token_symbol |-> "EMPE",
          valoper_prefix |-> "empevaloper", valcons_prefix |-> "empevalcons",
          missed_blocks_supported |-> TRUE,
          gov_proposals_endpoint |-> "/cosmos/gov/v1beta1/proposals",
          current_plan_endpoint |-> "/cosmos/upgrade/v1beta1/current_plan"]
    ELSE [rest_api_url |-> "https://rest.lumera", token_symbol |-> "LUME",
          valoper_prefix |-> "lumeravaloper", valcons_prefix |-> "lumeravalcons",
          gov_proposals_endpoint |-> "/cosmos/gov/v1/proposals",
          current_plan_endpoint |-> "/cosmos/upgrade/v1beta1/current_plan"]

\* operator addresses a user can type; the second lacks the valoper prefix
Addresses == {"empevaloper1", "xyz1"}
StartsWith(validator_address, prefix) ==
    prefix = "empevaloper" /\ validator_address = "empevaloper1"

\* values of missed_blocks_counter the signing-info endpoint reports
Counters == {MISSED_BLOCKS_THRESHOLD - 1, MISSED_BLOCKS_THRESHOLD}
RawStatuses == {"BOND_STATUS_BONDED", "BOND_STATUS_UNBONDING"}
Pubkeys == {"pk1", "notbase64"}
ConsAddrs == {"empevalcons1", "empevalcons2"}

\* answers of GET /cosmos/staking/v1beta1/validators/{address}
\* how the staking request can fail inside the try block: the request
\* raises httpx.RequestError, raise_for_status raises on a non-2xx status,
\* or the body lacks a field or holds a malformed one
StakingFailures == {"network", "http_status", "bad_data"}

StakingResponses ==
    {[ok |-> FALSE, failure |-> f] : f \in StakingFailures} \cup
    [ok : {TRUE}, moniker : Monikers, jailed : BOOLEAN,
     status : RawStatuses, pubkey : Pubkeys]

\* contents of the signing-infos answer: this validator present or not,
\* next to another validator's entry
SigningInfos ==
    {EmptyDict} \cup
    {[a \in {"empevalcons2"} |-> [missed_blocks_counter |-> 0]]} \cup
    {[a \in ConsAddrs |-> [missed_blocks_counter |->
                              IF a = "empevalcons1" THEN c ELSE 0]] : c \in Counters}
SlashingParams == {EmptyDict, [signed_blocks_window |-> 100]}

\* lookups of the register command: only success and moniker are read
RegisterLookups ==
    {r \in StakingResponses :
        r.ok => (~r.jailed /\ r.status = "BOND_STATUS_BONDED" /\ r.pubkey = "pk1")}

----------------------------------------------------------------------------
(* utils/api_helpers.py *)

Truthy(dict) == DOMAIN dict # {}

\* base64.b64decode on the key strings of the model: the byte length of the
\* decoded key, what it starts with, and a name for its content; the
\* decoding of any other string raises
b64decode(pubkey_b64) ==
    CASE pubkey_b64 = "pk1"    -> [ok |-> TRUE, length |-> 32, head |-> "raw", body |-> "1"]
      [] pubkey_b64 = "k33"    -> [ok |-> TRUE, length |-> 33, head |-> "02", body |-> "3"]
      [] pubkey_b64 = "k33odd" -> [ok |-> TRUE, length |-> 33, head |-> "raw", body |-> "5"]
      [] pubkey_b64 = "k36"    -> [ok |-> TRUE, length |-> 36, head |-> "amino", body |-> "a6"]
      [] pubkey_b64 = "k10"    -> [ok |-> TRUE, length |-> 10, head |-> "raw", body |-> "0"]
      [] OTHER                 -> [ok |-> FALSE, length |-> 0, head |-> "raw", body |-> ""]

\* hashlib.sha256(...).digest()[:20] followed by convertbits(.., 8, 5): a
\* function of the bytes hashed
Sha256First20(bytes) == bytes.body

\* bech32_encode(hrp, data)
bech32_encode(hrp, data) == hrp \o data

\* utils.api_helpers.pubkey_to_consensus_address: whatever bytes the key
\* decodes to are hashed; any exception gives None
pubkey_to_consensus_address(pubkey_b64, valcons_prefix) ==
    LET pubkey_bytes == b64decode(pubkey_b64)
    IN  IF ~pubkey_bytes.ok THEN None
        ELSE bech32_encode(valcons_prefix, Sha256First20(pubkey_bytes))

\* bot.py pubkey_to_consensus_address: the raw key is chosen by length and
\* marker, the Amino prefix is stripped, anything else gives None
mono_pubkey_to_consensus_address(pubkey_b64, valcons_prefix) ==
    LET pubkey_bytes == b64decode(pubkey_b64)
    IN  IF ~pubkey_bytes.ok THEN None
        ELSE IF pubkey_bytes.length = 32
        THEN bech32_encode(valcons_prefix, Sha256First20(pubkey_bytes))
        ELSE IF pubkey_bytes.length = 36 /\ pubkey_bytes.head = "amino"
        THEN bech32_encode(valcons_prefix,
                 Sha256First20([pubkey_bytes EXCEPT !.length = 32, !.head = "raw",
                                                    !.body = "6"]))
        ELSE IF pubkey_bytes.length = 33 /\ pubkey_bytes.head \in {"02", "03"}
        THEN bech32_encode(valcons_prefix, Sha256First20(pubkey_bytes))
        ELSE None

BondDisplay(raw) ==
    CASE raw = "BOND_STATUS_BONDED"    -> "Bonded"
      [] raw = "BOND_STATUS_UNBONDING" -> "Unbonding"
      [] raw = "BOND_STATUS_UNBONDED"  -> "Unbonded"
      [] OTHER                         -> raw

\* chain_config.get("missed_blocks_supported", False)
MissedSupported(chain_config) ==
    IF "missed_blocks_supported" \in DOMAIN chain_config
    THEN chain_config.missed_blocks_supported ELSE FALSE

\* a counter that reads 0 when the validator has no signing-info entry
MissedBlocksOfDefaultsZero(chain_config, resp, info_cache, params_cache) ==
    IF MissedSupported(chain_config) /\ Truthy(info_cache) /\ Truthy(params_cache)
    THEN LET cons == pubkey_to_consensus_address(resp.pubkey, chain_config.valcons_prefix)
         IN  IF cons # None /\ cons \in DOMAIN info_cache
             THEN info_cache[cons].missed_blocks_counter
             ELSE 0
    ELSE -1

\* lines 71-86: missed_blocks stays -1 unless the chain tracks missed blocks,
\* both caches hold data and the derived address has an entry
MissedBlocksOf(chain_config, resp, info_cache, params_cache) ==
    IF MissedSupported(chain_config) /\ Truthy(info_cache) /\ Truthy(params_cache)
    THEN LET cons == pubkey_to_consensus_address(resp.pubkey, chain_config.valcons_prefix)
         IN  IF cons # None /\ cons \in DOMAIN info_cache
             THEN info_cache[cons].missed_blocks_counter
             ELSE -1
    ELSE -1

\* the consensus_pubkey field is absent from the staking answer
MissingKey == "missing"

\* the three except clauses of get_validator_info
ErrorText(failure) ==
    IF failure = "network" THEN "Network error"
    ELSE IF failure = "bad_data"
    THEN "Validator not found or data format is invalid."
    ELSE "An unexpected error occurred."

\* lines 48-50: the subscripts read before the try block raise KeyError
\* when the chain configuration lacks one of these keys
ConfigLookupRaises(chain_config) ==
    ~({"rest_api_url", "valcons_prefix", "token_symbol"} \subseteq DOMAIN chain_config)

\* the try block of get_validator_info
get_validator_info(chain_config, resp, info_cache, params_cache) ==
    IF ~resp.ok
    THEN [success |-> FALSE, error |-> ErrorText(resp.failure)]
    ELSE IF /\ MissedSupported(chain_config)
            /\ Truthy(info_cache) /\ Truthy(params_cache)
            /\ resp.pubkey = MissingKey
    THEN [success |-> FALSE, error |-> ErrorText("bad_data")]
    ELSE [success |-> TRUE,
          moniker |-> resp.moniker,
          status |-> IF resp.jailed THEN "JAILED" ELSE BondDisplay(resp.status),
          jailed |-> resp.jailed,
          missed_blocks |-> MissedBlocksOf(chain_config, resp, info_cache, params_cache)]

----------------------------------------------------------------------------
(* db_manager.py *)

Row(user_id, channel_id, chain_name, validator_address, moniker, status, missed, t) ==
    [user_id |-> user_id, channel_id |-> channel_id, chain_name |-> chain_name,
     validator_address |-> validator_address, moniker |-> moniker,
     status |-> status, missed_blocks |-> missed, last_check_time |-> t,
     notifications_enabled |-> TRUE]

\* UNIQUE(user_id, chain_name, validator_address)
HasRow(table, user_id, chain_name, validator_address) ==
    \E r \in table : /\ r.user_id = user_id
                     /\ r.chain_name = chain_name
                     /\ r.validator_address = validator_address

\* an INSERT into a table without the UNIQUE constraint
add_validatorNoUnique(table, user_id, channel_id, chain_name, validator_address, moniker, t) ==
    table \cup {Row(user_id, channel_id, chain_name, validator_address,
                    moniker, "UNKNOWN", -1, t)}

\* the table after INSERT, or the table unchanged on sqlite3.IntegrityError
add_validator(table, user_id, channel_id, chain_name, validator_address, moniker, t) ==
    IF HasRow(table, user_id, chain_name, validator_address) THEN table
    ELSE table \cup {Row(user_id, channel_id, chain_name, validator_address,
                         moniker, "UNKNOWN", -1, t)}

\* DELETE FROM validators WHERE user_id = ? AND chain_name = ? AND
\* validator_address = ?
remove_validator(table, user_id, chain_name, validator_address) ==
    {r \in table : ~(/\ r.user_id = user_id
                     /\ r.chain_name = chain_name
                     /\ r.validator_address = validator_address)}

\* an update that writes the counters and the moniker and leaves the status
update_validator_statusKeepsStatus(table, chain_name, validator_address, new_status, new_missed_blocks, last_check_time, moniker) ==
    {IF r.chain_name = chain_name /\ r.validator_address = validator_address
     THEN [r EXCEPT !.missed_blocks = new_missed_blocks,
                    !.last_check_time = last_check_time,
                    !.moniker = IF moniker # None THEN moniker ELSE @]
     ELSE r : r \in table}

\* UPDATE validators SET ... WHERE chain_name = ? AND validator_address = ?
update_validator_status(table, chain_name, validator_address, new_status, new_missed_blocks, last_check_time, moniker) ==
    {IF r.chain_name = chain_name /\ r.validator_address = validator_address
     THEN [r EXCEPT !.status = new_status,
                    !.missed_blocks = new_missed_blocks,
                    !.last_check_time = last_check_time,
                    !.moniker = IF moniker # None THEN moniker ELSE @]
     ELSE r : r \in table}

ValData(row) ==
    [chain_name |-> row.chain_name, val_addr |-> row.validator_address,
     user_id |-> row.user_id, channel_id |-> row.channel_id,
     old_moniker |-> row.moniker, old_status |-> row.status,
     old_missed |-> row.missed_blocks]

\* the result rows in any order (the query has no ORDER BY)
RECURSIVE SeqsOf(_)
SeqsOf(rows) ==
    IF rows = {} THEN {<< >>}
    ELSE UNION {{<<ValData(r)>> \o s : s \in SeqsOf(rows \ {r})} : r \in rows}

\* SELECT ... FROM validators WHERE notifications_enabled = 1
get_all_validators_to_monitor(table) ==
    SeqsOf({r \in table : r.notifications_enabled})

----------------------------------------------------------------------------
(* cogs/monitoring_tasks.py: the classifier *)

TitleDefault == "Validator Status Update"
TitleJailed == "Critical Alert: Validator Jailed"
TitleRecovered == "Notice: Validator Recovered"
TitleMissed == "Warning: Missed Blocks Threshold Reached"
TitleRecoveredMissed == "Notice: Validator Recovered (Missed Blocks)"

Decision(send, title, save) ==
    [send_notification |-> send, alert_title |-> title, db_status_to_save |-> save]

\* the missed-blocks warning repeated on every poll above the threshold
ClassifyRepeatsWarning(old_status, status_info) ==
    LET new_status == status_info.status
        new_jailed == status_info.jailed
        new_missed == status_info.missed_blocks
    IN  IF new_jailed /\ ~(old_status = "JAILED")
        THEN Decision(TRUE, TitleJailed, "JAILED")
        ELSE IF ~new_jailed /\ old_status = "JAILED"
        THEN Decision(TRUE, TitleRecovered, new_status)
        ELSE IF ~new_jailed
        THEN IF new_missed >= MISSED_BLOCKS_THRESHOLD
             THEN Decision(TRUE, TitleMissed, "WARNING_MISSED_BLOCKS")
             ELSE IF new_missed < MISSED_BLOCKS_THRESHOLD
                     /\ old_status = "WARNING_MISSED_BLOCKS"
             THEN Decision(TRUE, TitleRecoveredMissed, new_status)
             ELSE Decision(FALSE, TitleDefault, new_status)
        ELSE Decision(FALSE, TitleDefault, new_status)

\* lines 98-143 of check_and_notify_validator_status, for a successful poll
Classify(old_status, status_info) ==
    LET new_status == status_info.status
        new_jailed == status_info.jailed
        new_missed == status_info.missed_blocks
    IN  IF new_jailed /\ ~(old_status = "JAILED")
        THEN Decision(TRUE, TitleJailed, "JAILED")
        ELSE IF ~new_jailed /\ old_status = "JAILED"
        THEN Decision(TRUE, TitleRecovered, new_status)
        ELSE IF ~new_jailed
        THEN IF new_missed >= MISSED_BLOCKS_THRESHOLD
             THEN IF old_status # "WARNING_MISSED_BLOCKS"
                  THEN Decision(TRUE, TitleMissed, "WARNING_MISSED_BLOCKS")
                  ELSE Decision(FALSE, TitleDefault, "WARNING_MISSED_BLOCKS")
             ELSE IF new_missed < MISSED_BLOCKS_THRESHOLD
                     /\ old_status = "WARNING_MISSED_BLOCKS"
             THEN Decision(TRUE, TitleRecoveredMissed, new_status)
             ELSE Decision(FALSE, TitleDefault, new_status)
        ELSE Decision(FALSE, TitleDefault, new_status)

\* history record of one call of check_and_notify_validator_status.
\* dispatch: "none"        no notification was due
\*           "no_channel"  bot.get_channel returned None (early return)
\*           "send_failed" fetch_user or channel.send raised (logged)
\*           "delivered"   channel.send returned
\*           "raised"      the repository write raised and left the handler
PollRecord(val_data, info, decision, dispatch, wrote, saved) ==
    [polled |-> TRUE,
     user_id |-> val_data.user_id,
     old_status |-> val_data.old_status,
     old_missed |-> val_data.old_missed,
     old_moniker |-> val_data.old_moniker,
     success |-> info.success,
     jailed |-> IF info.success THEN info.jailed ELSE FALSE,
     status |-> IF info.success THEN info.status ELSE None,
     missed_blocks |-> IF info.success THEN info.missed_blocks ELSE -1,
     moniker |-> IF info.success THEN info.moniker ELSE None,
     send_notification |-> decision.send_notification,
     alert_title |-> decision.alert_title,
     dispatch |-> dispatch,
     wrote |-> wrote,
     saved_status |-> saved]

NoPoll ==
    [polled |-> FALSE, user_id |-> None, old_status |-> None, old_missed |-> -1,
     old_moniker |-> None, success |-> FALSE, jailed |-> FALSE, status |-> None,
     missed_blocks |-> -1, moniker |-> None, send_notification |-> FALSE,
     alert_title |-> TitleDefault, dispatch |-> "none", wrote |-> FALSE,
     saved_status |-> None]

----------------------------------------------------------------------------
(* Chain notification preferences: the table behind /set_chain_notifications.
   Its db_manager functions are called by the cogs but are not part of
   src/db_manager.py; they are modelled from the specification's data model:
   one row per (channel_id, chain_name). *)

Channels == {"ch1", "ch2"}

PrefRow(channel_id, chain_name, gov, upgrade, mention_type) ==
    [channel_id |-> channel_id, chain_name |-> chain_name,
     notify_gov_enabled |-> gov, notify_upgrade_enabled |-> upgrade,
     mention_type |-> mention_type]

\* the tables the database file holds when the bot starts
PrefTables ==
    { {PrefRow("ch1", "empe", TRUE, TRUE, "here"),
       PrefRow("ch2", "empe", FALSE, FALSE, "everyone")},
      {PrefRow("ch1", "empe", TRUE, FALSE, None),
       PrefRow("ch2", "empe", TRUE, TRUE, "everyone")},
      {PrefRow("ch2", "empe", FALSE, TRUE, "here")} }

\* db_manager.get_all_chain_notification_chains
get_all_chain_notification_chains(table) == {r.chain_name : r \in table}

\* db_manager.get_chain_notification_preferences: the chain's rows, in
\* channel order
get_chain_notification_preferences(table, chain_name) ==
    LET rows == {r \in table : r.chain_name = chain_name}
        ch1 == {r \in rows : r.channel_id = "ch1"}
        ch2 == {r \in rows : r.channel_id = "ch2"}
        AsSeq(S) == IF S = {} THEN << >> ELSE <<CHOOSE r \in S : TRUE>>
    IN AsSeq(ch1) \o AsSeq(ch2)

\* what bot.get_channel and channel.send do for one channel during one poll
ChannelOutcomes == {"ok", "no_channel", "send_raises"}

\* mention_str of the fan-out loops
MentionStr(mention_type) ==
    IF mention_type = "here" THEN "@here"
    ELSE IF mention_type = "everyone" THEN "@everyone"
    ELSE None

\* one iteration of the fan-out loop: what happened for one row
DeliverTo(config, enabled, outcome) ==
    [channel_id |-> config.channel_id,
     content |-> MentionStr(config.mention_type),
     result |-> IF ~enabled THEN "disabled"
                ELSE IF outcome = "no_channel" THEN "no_channel"
                ELSE IF outcome = "send_raises" THEN "send_failed"
                ELSE "sent"]

\* a fan-out that gives up at the first row it cannot deliver to
RECURSIVE SendToConfigsStopsAtFailure(_, _, _)
SendToConfigsStopsAtFailure(configs, flag, outcomes) ==
    IF configs = << >> THEN {}
    ELSE LET config == Head(configs)
             d == DeliverTo(config, config[flag], outcomes[config.channel_id])
         IN IF d.result \in {"no_channel", "send_failed"} THEN {d}
            ELSE {d} \cup SendToConfigsStopsAtFailure(Tail(configs), flag, outcomes)

\* the fan-out loop of send_governance_notification and
\* send_upgrade_notification: every row is tried on its own
RECURSIVE SendToConfigs(_, _, _)
SendToConfigs(configs, flag, outcomes) ==
    IF configs = << >> THEN {}
    ELSE LET config == Head(configs)
             d == DeliverTo(config, config[flag], outcomes[config.channel_id])
         IN {d} \cup SendToConfigs(Tail(configs), flag, outcomes)

\* Python's dict.get(key, default) on a dict modelled as a function
DictGet(dict, key, default) ==
    IF key \in DOMAIN dict THEN dict[key] ELSE default

\* dict[key] = value
DictSet(dict, key, value) ==
    [k \in DOMAIN dict \cup {key} |-> IF k = key THEN value ELSE dict[k]]

-----------------------------------------------------------------------------
(* Governance monitor: MonitoringTasks.monitor_governance *)

ProposalIds == {"1", "2"}

ProposalStatuses ==
    {"PROPOSAL_STATUS_DEPOSIT_PERIOD", "PROPOSAL_STATUS_VOTING_PERIOD",
     "PROPOSAL_STATUS_PASSED"}

FinalStatuses ==
    {"PROPOSAL_STATUS_PASSED", "PROPOSAL_STATUS_REJECTED", "PROPOSAL_STATUS_FAILED"}

\* current_proposals: the live proposal list as a dict keyed by proposal id
ProposalLists ==
    UNION {[S -> [status : ProposalStatuses]] : S \in SUBSET ProposalIds}

\* what requests.get + raise_for_status + json give for the proposals endpoint
GovResponses ==
    {[ok |-> FALSE, proposals |-> EmptyDict]}
        \cup {[ok |-> TRUE, proposals |-> l] : l \in ProposalLists}

\* a classifier that notifies a voting proposal on every poll
GovNotifTypeRepeats(old_proposals, prop_id, prop_data) ==
    IF prop_data.status = "PROPOSAL_STATUS_VOTING_PERIOD" THEN "new_voting_period"
    ELSE IF prop_id \notin DOMAIN old_proposals
    THEN IF prop_data.status = "PROPOSAL_STATUS_DEPOSIT_PERIOD"
         THEN "new_deposit_period" ELSE "none"
    ELSE IF prop_data.status # old_proposals[prop_id].status
            /\ prop_data.status \in FinalStatuses
         THEN "final_result" ELSE "none"

\* the body of the loop over current_proposals: the notification type for
\* one live proposal, "none" when nothing is sent
GovNotifType(old_proposals, prop_id, prop_data) ==
    IF prop_id \notin DOMAIN old_proposals
    THEN IF prop_data.status = "PROPOSAL_STATUS_VOTING_PERIOD" THEN "new_voting_period"
         ELSE IF prop_data.status = "PROPOSAL_STATUS_DEPOSIT_PERIOD"
         THEN "new_deposit_period"
         ELSE "none"
    ELSE IF prop_data.status # old_proposals[prop_id].status
    THEN IF prop_data.status = "PROPOSAL_STATUS_VOTING_PERIOD" THEN "new_voting_period"
         ELSE IF prop_data.status \in FinalStatuses THEN "final_result"
         ELSE "none"
    ELSE "none"

\* every send_governance_notification call the loop makes
GovNotifications(old_proposals, current_proposals) ==
    {[prop_id |-> id,
      notif_type |-> GovNotifType(old_proposals, id, current_proposals[id])] :
        id \in {i \in DOMAIN current_proposals :
                  GovNotifType(old_proposals, i, current_proposals[i]) # "none"}}

\* a poll without the cold-start branch
GovPollNotificationsNoColdStart(cached, old_proposals, current_proposals) ==
    GovNotifications(old_proposals, current_proposals)

\* the cold-start branch and the loop: a falsy cache entry (missing or
\* empty) is seeded and nothing is sent
GovPollNotifications(cached, old_proposals, current_proposals) ==
    IF ~Truthy(cached) THEN {}
    ELSE GovNotifications(old_proposals, current_proposals)

\* a cache that keeps proposals that left the live list
NewGovCacheKeepsOld(old_proposals, current_proposals) ==
    [id \in DOMAIN old_proposals \cup DOMAIN current_proposals |->
        IF id \in DOMAIN current_proposals THEN current_proposals[id]
        ELSE old_proposals[id]]

\* what both branches store for the chain: the live list
NewGovCache(old_proposals, current_proposals) == current_proposals

GovRecord(chain_name, response, seeded, old, notifs, outcomes, deliveries) ==
    [polled |-> TRUE, chain_name |-> chain_name, ok |-> response.ok,
     seeded |-> seeded, old |-> old, live |-> response.proposals,
     notifs |-> notifs, outcomes |-> outcomes, deliveries |-> deliveries]

NoGov ==
    [polled |-> FALSE, chain_name |-> None, ok |-> FALSE, seeded |-> FALSE,
     old |-> EmptyDict, live |-> EmptyDict, notifs |-> {},
     outcomes |-> [c \in Channels |-> "ok"], deliveries |-> {}]

-----------------------------------------------------------------------------
(* Upgrade monitor: MonitoringTasks.monitor_upgrades, and monitor_upgrades
   of the single-file bot *)

PlanNames == {"v2", "v3"}

\* the height of a plan as the JSON carries it: a string, here one that is
\* a number and one that is not
PlanHeights == {"100", "abc"}

\* int(plan_data.get('height', 0)) raises ValueError on other strings
IsIntString(s) == s \in {"0", "100"}

\* int() of a height string
IntOf(s) == IF s = "100" THEN 100 ELSE 0

\* what get_latest_block_height returns: None (ok = FALSE) or the height
LatestHeights ==
    {[ok |-> FALSE, height |-> 0]}
        \cup {[ok |-> TRUE, height |-> h] : h \in {50, 100, 150}}

\* the Blocks Remaining field of the cog's embed: the difference when the
\* latest height is truthy and below the target, else "Reached"
BlocksRemaining(plan_height, current_height) ==
    IF current_height.ok /\ current_height.height # 0
       /\ plan_height > current_height.height
    THEN [text |-> "number", value |-> plan_height - current_height.height]
    ELSE [text |-> "Reached", value |-> 0]

\* remaining_blocks of bot.py send_upgrade_notification
MonoBlocksRemaining(plan_height, current_height) ==
    IF current_height.ok /\ plan_height > 0
    THEN IF plan_height - current_height.height > 0
         THEN [text |-> "number", value |-> plan_height - current_height.height]
         ELSE [text |-> "0 (Upgrade height reached or passed)", value |-> 0]
    ELSE [text |-> "N/A", value |-> 0]

\* what send_upgrade_notification made of the plan: raised is TRUE when
\* int() of the height raised before any embed existed
Embed(raised, has_height, current_height, blocks_remaining) ==
    [raised |-> raised, has_height |-> has_height,
     current_height |-> current_height, blocks_remaining |-> blocks_remaining]

NoEmbed ==
    Embed(FALSE, FALSE, [ok |-> FALSE, height |-> 0], [text |-> "N/A", value |-> 0])

\* the embed the cog's send_upgrade_notification builds before the fan-out
UpgradeEmbed(plan_data, current_height) ==
    IF ~IsIntString(plan_data.height)
    THEN Embed(TRUE, FALSE, NoEmbed.current_height, NoEmbed.blocks_remaining)
    ELSE LET plan_height == IntOf(plan_data.height)
         IN  IF plan_height > 0
             THEN Embed(FALSE, TRUE, current_height,
                        BlocksRemaining(plan_height, current_height))
             ELSE NoEmbed

\* the same for the new_plan branch of bot.py send_upgrade_notification
MonoUpgradeEmbed(upgrade_plan, current_height) ==
    IF ~IsIntString(upgrade_plan.height)
    THEN Embed(TRUE, FALSE, NoEmbed.current_height, NoEmbed.blocks_remaining)
    ELSE Embed(FALSE, TRUE, current_height,
               MonoBlocksRemaining(IntOf(upgrade_plan.height), current_height))

Plans == [name : PlanNames, height : PlanHeights]

\* Python's None where a plan is expected
NoPlan == [name |-> None, height |-> "0"]

\* what requests.get gives for the current_plan endpoint: an exception
\* without a response, or a response with a status code and a JSON body
UpgResponses ==
    {[raised |-> TRUE, status_code |-> 0, plan |-> NoPlan]}
        \cup {[raised |-> FALSE, status_code |-> 200, plan |-> p] :
                  p \in Plans \cup {NoPlan}}
        \cup {[raised |-> FALSE, status_code |-> c, plan |-> NoPlan] :
                  c \in {404, 500}}

UpgRecord(chain_name, response, old_plan, notif, notif_plan, outcomes, deliveries, embed) ==
    [polled |-> TRUE, chain_name |-> chain_name, response |-> response,
     seeded |-> chain_name \in DOMAIN upgrade_plan_cache,
     old_plan |-> old_plan, notif |-> notif, notif_plan |-> notif_plan,
     outcomes |-> outcomes, deliveries |-> deliveries, embed |-> embed]

NoUpg ==
    [polled |-> FALSE, chain_name |-> None,
     response |-> [raised |-> TRUE, status_code |-> 0, plan |-> NoPlan],
     seeded |-> FALSE, old_plan |-> NoPlan, notif |-> "none", notif_plan |-> NoPlan,
     outcomes |-> [c \in Channels |-> "ok"], deliveries |-> {},
     embed |-> NoEmbed]

-----------------------------------------------------------------------------
(* State machine *)

\* no command or resolver call has been recorded
NoCall == [op |-> "none"]

InitValidators ==
    /\ lastCall = NoCall
    /\ db = {}
    /\ now = 0
    /\ slashing_info_cache = [c \in SupportedChains |-> EmptyDict]
    /\ slashing_params_cache = [c \in SupportedChains |-> EmptyDict]
    /\ validators_to_monitor = << >>
    /\ lastPoll = NoPoll

\* no chain cycle is running
NoCycle == [task |-> "none", chains |-> << >>]

\* no scenario is counting alerts
NoAlerts == [episode |-> "none", attempts |-> 0, delivered |-> 0, since_failure |-> 0]

\* MonitoringTasks.__init__: both chain caches start as empty dicts
InitChains ==
    /\ governance_proposals_cache = EmptyDict
    /\ upgrade_plan_cache = EmptyDict
    /\ lastGov = NoGov
    /\ lastUpg = NoUpg
    /\ chains_to_monitor = NoCycle
    /\ alert_log = NoAlerts

Init ==
    /\ InitValidators
    /\ InitChains
    /\ chain_prefs = {}

\* ValidatorCommands.register
Register(user_id, chain_name, validator_address, resp) ==
    /\ IF chain_name \notin SupportedChains
       THEN UNCHANGED db
       ELSE LET chain_config == ChainConfig(chain_name)
                status_info == get_validator_info(chain_config, resp, EmptyDict, EmptyDict)
            IN  IF ~StartsWith(validator_address, chain_config.valoper_prefix)
                THEN UNCHANGED db
                ELSE IF ~status_info.success
                THEN UNCHANGED db
                ELSE db' = add_validator(db, user_id, "ch1", chain_name,
                                         validator_address, status_info.moniker, now)
    /\ UNCHANGED <<now, slashing_info_cache, slashing_params_cache,
                   validators_to_monitor, lastPoll, lastCall>>
    /\ UNCHANGED chainVars

\* answers of the slashing params and signing infos endpoints: ok is FALSE
\* when the request, raise_for_status or the parsing raises
ParamsResponses ==
    {[ok |-> FALSE, params |-> EmptyDict]} \cup
    {[ok |-> TRUE, params |-> p] : p \in SlashingParams}
InfosResponses ==
    {[ok |-> FALSE, info |-> EmptyDict]} \cup
    {[ok |-> TRUE, info |-> i] : i \in SigningInfos}
NoSlashingData == [ok |-> FALSE, params |-> EmptyDict, info |-> EmptyDict]

\* a refresh whose except block only logs: what was assigned stays
RefreshSlashingKeepsOnFailure(old_params, old_info, params_response, infos_response) ==
    IF ~params_response.ok THEN [params |-> old_params, info |-> old_info]
    ELSE IF ~infos_response.ok
         THEN [params |-> params_response.params, info |-> old_info]
         ELSE [params |-> params_response.params, info |-> infos_response.info]

\* the try block of the refresh for one chain: the params cache is assigned,
\* then the signing-info cache; any exception sets both to {}
RefreshSlashing(old_params, old_info, params_response, infos_response) ==
    IF params_response.ok /\ infos_response.ok
    THEN [params |-> params_response.params, info |-> infos_response.info]
    ELSE [params |-> EmptyDict, info |-> EmptyDict]

\* MonitoringTasks.monitor_validators up to the loop over the rows:
\* refresh of the slashing caches of every chain, then the query
RefreshAndQuery(params_response, infos_response) ==
    /\ validators_to_monitor = << >>
    /\ lastPoll.dispatch # "raised"   \* an exception leaving the body ends the task
    /\ slashing_params_cache' =
          [c \in SupportedChains |->
              IF ~MissedSupported(ChainConfig(c)) THEN slashing_params_cache[c]
              ELSE RefreshSlashing(slashing_params_cache[c], slashing_info_cache[c],
                                   params_response, infos_response).params]
    /\ slashing_info_cache' =
          [c \in SupportedChains |->
              IF ~MissedSupported(ChainConfig(c)) THEN slashing_info_cache[c]
              ELSE RefreshSlashing(slashing_params_cache[c], slashing_info_cache[c],
                                   params_response, infos_response).info]
    /\ validators_to_monitor' \in get_all_validators_to_monitor(db)

\* a cycle of the model's first MaxCycles intervals
BeginCycle(params_response, infos_response) ==
    /\ now < MaxCycles
    /\ now' = now + 1
    /\ RefreshAndQuery(params_response, infos_response)

MonitorValidatorsBegin(params_response, infos_response) ==
    /\ BeginCycle(params_response, infos_response)
    /\ UNCHANGED <<db, lastPoll, lastCall>>
    /\ UNCHANGED chainVars

\* a loop that gives up the cycle when an alert could not be delivered
RemainingRowsStopsOnDeliveryFailure(rows, dispatch) ==
    IF dispatch \in {"raised", "no_channel", "send_failed"} THEN << >>
    ELSE Tail(rows)

\* the for loop of monitor_validators: the next row follows whenever the
\* handler returns; an exception leaving the handler leaves the loop
RemainingRows(rows, dispatch) ==
    IF dispatch = "raised" THEN << >> ELSE Tail(rows)

\* MonitoringTasks.check_and_notify_validator_status for the next row
CheckAndNotify(resp, channel_found, send_ok) ==
    /\ validators_to_monitor # << >>
    /\ LET val_data == Head(validators_to_monitor)
           chain_config == ChainConfig(val_data.chain_name)
           status_info == get_validator_info(chain_config, resp,
                              slashing_info_cache[val_data.chain_name],
                              slashing_params_cache[val_data.chain_name])
       IN  IF ~status_info.success
           THEN IF val_data.old_status # "API_ERROR"
                THEN /\ db' = update_validator_status(db, val_data.chain_name,
                                  val_data.val_addr, "API_ERROR", val_data.old_missed,
                                  now, val_data.old_moniker)
                     /\ lastPoll' = PollRecord(val_data, status_info,
                                       Decision(FALSE, TitleDefault, "API_ERROR"),
                                       "none", TRUE, "API_ERROR")
                ELSE /\ UNCHANGED db
                     /\ lastPoll' = PollRecord(val_data, status_info,
                                       Decision(FALSE, TitleDefault, None),
                                       "none", FALSE, None)
           ELSE LET d == Classify(val_data.old_status, status_info)
                IN  IF d.send_notification /\ ~channel_found
                    THEN /\ UNCHANGED db
                         /\ lastPoll' = PollRecord(val_data, status_info, d,
                                           "no_channel", FALSE, None)
                    ELSE /\ db' = update_validator_status(db, val_data.chain_name,
                                      val_data.val_addr, d.db_status_to_save,
                                      status_info.missed_blocks, now, status_info.moniker)
                         /\ lastPoll' = PollRecord(val_data, status_info, d,
                                           IF ~d.send_notification THEN "none"
                                           ELSE IF send_ok THEN "delivered"
                                           ELSE "send_failed",
                                           TRUE, d.db_status_to_save)
    /\ validators_to_monitor' = RemainingRows(validators_to_monitor, lastPoll'.dispatch)

CheckAndNotifyValidatorStatus(resp, channel_found, send_ok) ==
    /\ CheckAndNotify(resp, channel_found, send_ok)
    /\ UNCHANGED <<now, slashing_info_cache, slashing_params_cache, lastCall>>
    /\ UNCHANGED chainVars

Next ==
    \/ \E u \in Users, c \in ChainNames, a \in Addresses, r \in RegisterLookups :
          Register(u, c, a, r)
    \/ \E p \in ParamsResponses, i \in InfosResponses :
          MonitorValidatorsBegin(p, i)
    \/ \E r \in StakingResponses, cf \in BOOLEAN, so \in BOOLEAN :
          CheckAndNotifyValidatorStatus(r, cf, so)

Spec == Init /\ [][Next]_vars

----------------------------------------------------------------------------
(* Properties of the validator health classifier *)

\* one iteration of the loop of monitor_validators
PollStep ==
    /\ validators_to_monitor # << >>
    /\ validators_to_monitor' = Tail(validators_to_monitor)

\* the persisted row of the registration a val_data tuple was read from
PersistedRows(table, val_data) ==
    {r \in table : /\ r.user_id = val_data.user_id
                /\ r.chain_name = val_data.chain_name
                /\ r.validator_address = val_data.val_addr}

\* the alert reached channel.send (embed built, try block entered)
Handed(p) == p.send_notification /\ p.dispatch \in {"delivered", "send_failed"}

SameData(p, q) ==
    /\ p.user_id = q.user_id
    /\ p.success = q.success
    /\ p.jailed = q.jailed
    /\ p.status = q.status
    /\ p.missed_blocks = q.missed_blocks

\* C1: a successful poll with jailed=true and missed_blocks at or above
\* the threshold, previous status not JAILED, sends the Jailed alert (not a
\* missed-blocks alert) and persists JAILED.
C1_JailedPriority ==
    (/\ lastPoll.polled /\ lastPoll.success /\ lastPoll.jailed
     /\ lastPoll.missed_blocks >= MISSED_BLOCKS_THRESHOLD
     /\ lastPoll.old_status # "JAILED")
    => /\ Handed(lastPoll)
       /\ lastPoll.alert_title = TitleJailed
       /\ lastPoll.wrote
       /\ lastPoll.saved_status = "JAILED"

\* C2: every poll of a monitored validator calls update_validator_status,
\* whatever its outcome.
C2_AlwaysWritesBack ==
    lastPoll.polled => lastPoll.wrote

C4_ApiFailureAlert ==
    [][(PollStep /\ ~lastPoll'.success)
       => /\ \A r \in PersistedRows(db', Head(validators_to_monitor)) :
                /\ r.status = "API_ERROR"
                /\ r.missed_blocks = Head(validators_to_monitor).old_missed
                /\ r.moniker = Head(validators_to_monitor).old_moniker
          /\ IF Head(validators_to_monitor).old_status # "API_ERROR"
             THEN Handed(lastPoll')
             ELSE ~lastPoll'.send_notification]_vars

\* C5: a successful poll with previous status API_ERROR, jailed=false and
\* missed_blocks below the threshold sends one 'API Recovered' alert and
\* persists the bonding status; with jailed=true or missed_blocks at or
\* above the threshold the jailing / missed-blocks rule fires in that poll.
C5_ApiRecovery ==
    (lastPoll.polled /\ lastPoll.success /\ lastPoll.old_status = "API_ERROR")
    => /\ Handed(lastPoll)
       /\ lastPoll.wrote
       /\ IF lastPoll.jailed
          THEN lastPoll.alert_title = TitleJailed /\ lastPoll.saved_status = "JAILED"
          ELSE IF lastPoll.missed_blocks >= MISSED_BLOCKS_THRESHOLD
          THEN /\ lastPoll.alert_title = TitleMissed
               /\ lastPoll.saved_status = "WARNING_MISSED_BLOCKS"
          ELSE /\ lastPoll.alert_title \notin {TitleDefault, TitleJailed, TitleRecovered,
                                               TitleMissed, TitleRecoveredMissed}
               /\ lastPoll.saved_status = lastPoll.status

\* C6: a successful poll that reports missed_blocks = -1 raises neither the
\* missed-blocks warning nor the missed-blocks recovery, whatever the
\* previous status.
C6_MissedBlocksOnlyWhenValid ==
    (lastPoll.polled /\ lastPoll.success /\ lastPoll.missed_blocks = -1)
    => ~(/\ Handed(lastPoll)
         /\ lastPoll.alert_title \in {TitleMissed, TitleRecoveredMissed})

\* C7: the second of two consecutive polls of a validator with identical
\* data sends no notification.
C7_Idempotence ==
    [][(PollStep /\ lastPoll.polled /\ SameData(lastPoll, lastPoll'))
       => ~Handed(lastPoll')]_vars

\* C8: a successful poll with jailed=false, 0 <= missed_blocks < threshold
\* and previous status WARNING_MISSED_BLOCKS sends the missed-blocks
\* recovery alert and persists the bonding status; the next identical
\* poll sends nothing.
RecoveryPoll(p) ==
    /\ p.polled /\ p.success /\ ~p.jailed
    /\ p.missed_blocks >= 0 /\ p.missed_blocks < MISSED_BLOCKS_THRESHOLD
    /\ p.old_status = "WARNING_MISSED_BLOCKS"

C8_MissedBlocksRecovery ==
    [][PollStep
       => /\ RecoveryPoll(lastPoll')
             => /\ Handed(lastPoll')
                /\ lastPoll'.alert_title = TitleRecoveredMissed
                /\ \A r \in PersistedRows(db', Head(validators_to_monitor)) :
                      r.status = lastPoll'.status
          /\ (RecoveryPoll(lastPoll) /\ SameData(lastPoll, lastPoll'))
             => ~Handed(lastPoll')]_vars

\* C9: the first successful poll of a freshly registered validator
\* (UNKNOWN, -1) with jailed=false and missed_blocks below the threshold
\* sends nothing and persists the bonding status; the next poll with
\* jailed=false and missed_blocks at or above the threshold sends the
\* missed-blocks warning and persists WARNING_MISSED_BLOCKS.
FirstObservation(p) ==
    /\ p.polled /\ p.success /\ ~p.jailed
    /\ p.old_status = "UNKNOWN" /\ p.old_missed = -1
    /\ p.missed_blocks < MISSED_BLOCKS_THRESHOLD

C9_FirstObservation ==
    [][PollStep
       => /\ FirstObservation(lastPoll')
             => /\ ~lastPoll'.send_notification
                /\ \A r \in PersistedRows(db', Head(validators_to_monitor)) :
                      r.status = lastPoll'.status
          /\ (/\ FirstObservation(lastPoll)
              /\ lastPoll'.user_id = lastPoll.user_id
              /\ lastPoll'.success /\ ~lastPoll'.jailed
              /\ lastPoll'.missed_blocks >= MISSED_BLOCKS_THRESHOLD)
             => /\ Handed(lastPoll')
                /\ lastPoll'.alert_title = TitleMissed
                /\ \A r \in PersistedRows(db', Head(validators_to_monitor)) :
                      r.status = "WARNING_MISSED_BLOCKS"]_vars

\* C10: on a successful poll the Jailed alert is sent exactly when
\* jailed=true and the persisted status is not JAILED, and JAILED is then
\* persisted; the Recovered alert is sent exactly when jailed=false and the
\* persisted status is JAILED, and the bonding status is then persisted.
C10_JailUnjail ==
    [][(PollStep /\ lastPoll'.success)
       => LET old == Head(validators_to_monitor).old_status
              rows == PersistedRows(db', Head(validators_to_monitor))
          IN  /\ (Handed(lastPoll') /\ lastPoll'.alert_title = TitleJailed)
                 <=> (lastPoll'.jailed /\ old # "JAILED")
              /\ (lastPoll'.jailed /\ old # "JAILED")
                 => \A r \in rows : r.status = "JAILED"
              /\ (Handed(lastPoll') /\ lastPoll'.alert_title = TitleRecovered)
                 <=> (~lastPoll'.jailed /\ old = "JAILED")
              /\ (~lastPoll'.jailed /\ old = "JAILED")
                 => \A r \in rows : r.status = lastPoll'.status]_vars

\* the display strings get_validator_info gives for the bonding statuses
BondingStatuses == {BondDisplay(s) : s \in RawStatuses}

\* C11: on a successful poll where no failure, jailing, un-jailing, recovery
\* or missed-blocks rule fires and the bonding status differs from the
\* persisted bonding status, one informational alert is sent and the new
\* status is persisted.
C11_PlainStatusChange ==
    (/\ lastPoll.polled /\ lastPoll.success /\ ~lastPoll.jailed
     /\ lastPoll.missed_blocks < MISSED_BLOCKS_THRESHOLD
     /\ lastPoll.old_status \in BondingStatuses
     /\ lastPoll.status \in BondingStatuses
     /\ lastPoll.status # lastPoll.old_status)
    => /\ Handed(lastPoll)
       /\ lastPoll.wrote
       /\ lastPoll.saved_status = lastPoll.status

\* the status the fresh data calls for, whatever the previous status was
StatusOfFreshData(p) ==
    IF p.jailed THEN "JAILED"
    ELSE IF p.missed_blocks >= MISSED_BLOCKS_THRESHOLD THEN "WARNING_MISSED_BLOCKS"
    ELSE p.status

\* C12: the status a successful poll persists is JAILED iff jailed,
\* WARNING_MISSED_BLOCKS iff not jailed and missed_blocks is at or above the
\* threshold, and the bonding status otherwise, whichever alert fired.
C12_PersistedStatusReflectsAll ==
    (lastPoll.polled /\ lastPoll.success /\ lastPoll.wrote)
    => lastPoll.saved_status = StatusOfFreshData(lastPoll)

-----------------------------------------------------------------------------
(* Governance monitor: state machine.  One step is one iteration of the
   loop over chains_to_monitor in monitor_governance, with every
   send_governance_notification call it makes. *)

InitChainMonitors ==
    /\ InitValidators
    /\ InitChains
    /\ chain_prefs \in PrefTables

\* the try block of the loop body of monitor_governance for one chain
GovernancePoll(chain_name, response, outcomes) ==
    LET seeded == chain_name \in DOMAIN governance_proposals_cache
           old_proposals == DictGet(governance_proposals_cache, chain_name, EmptyDict)
       IN  IF ~response.ok
           THEN /\ UNCHANGED governance_proposals_cache
                /\ lastGov' = GovRecord(chain_name, response, seeded,
                                  old_proposals, {}, outcomes, {})
           ELSE LET current_proposals == response.proposals
                    notifs == GovPollNotifications(old_proposals, old_proposals,
                                                   current_proposals)
                    configs == get_chain_notification_preferences(chain_prefs,
                                                                  chain_name)
                    deliveries == IF notifs = {} THEN {}
                                  ELSE SendToConfigs(configs, "notify_gov_enabled",
                                                     outcomes)
                IN  /\ governance_proposals_cache' =
                          DictSet(governance_proposals_cache, chain_name,
                                  NewGovCache(old_proposals, current_proposals))
                    /\ lastGov' = GovRecord(chain_name, response, seeded,
                                      old_proposals, notifs, outcomes, deliveries)

\* one iteration of the loop of monitor_governance
MonitorGovernance(chain_name, response, outcomes) ==
    /\ chain_name \in get_all_chain_notification_chains(chain_prefs)
    /\ chain_name \in SupportedChains
    /\ "gov_proposals_endpoint" \in DOMAIN ChainConfig(chain_name)
    /\ GovernancePoll(chain_name, response, outcomes)
    /\ UNCHANGED <<chain_prefs, upgrade_plan_cache, lastUpg, chains_to_monitor>>
    /\ UNCHANGED validatorVars

NextGov ==
    \E c \in ChainNames, r \in GovResponses, o \in [Channels -> ChannelOutcomes] :
        MonitorGovernance(c, r, o)

SpecGov == InitChainMonitors /\ [][NextGov]_vars

\* the notifications of one poll that are about one proposal
NotifsAbout(p, id) == {n \in p.notifs : n.prop_id = id}

\* C13: the first successful governance poll of a chain (nothing cached for
\* it) stores the fetched proposals and sends no notification, whatever
\* was fetched.
C13_GovColdStart ==
    (lastGov.polled /\ lastGov.ok /\ ~lastGov.seeded)
    => /\ lastGov.notifs = {}
       /\ lastGov.deliveries = {}
       /\ governance_proposals_cache[lastGov.chain_name] = lastGov.live

C13_Witness ==
    /\ lastGov.polled /\ lastGov.ok /\ ~lastGov.seeded
    /\ DOMAIN lastGov.live = ProposalIds
    /\ lastGov.live["1"].status = "PROPOSAL_STATUS_VOTING_PERIOD"
    /\ lastGov.live["2"].status = "PROPOSAL_STATUS_DEPOSIT_PERIOD"
    /\ \E r \in chain_prefs : /\ r.notify_gov_enabled
                              /\ lastGov.outcomes[r.channel_id] = "ok"
    /\ lastGov.notifs = {}

\* C14: on every successful governance poll of a chain after its first
\* successful poll, each live proposal absent from the cache is notified as
\* entering voting (VOTING_PERIOD) or as a new proposal in deposit
\* (DEPOSIT_PERIOD), also when an earlier poll returned an empty list.
C14_NewProposalsAfterFirstPoll ==
    (lastGov.polled /\ lastGov.ok /\ lastGov.seeded)
    => \A id \in DOMAIN lastGov.live \ DOMAIN lastGov.old :
          /\ lastGov.live[id].status = "PROPOSAL_STATUS_VOTING_PERIOD"
             => [prop_id |-> id, notif_type |-> "new_voting_period"]
                    \in lastGov.notifs
          /\ lastGov.live[id].status = "PROPOSAL_STATUS_DEPOSIT_PERIOD"
             => [prop_id |-> id, notif_type |-> "new_deposit_period"]
                    \in lastGov.notifs

\* what C15 asks of one successful poll p and one proposal that was cached
TransitionNotified(p, id) ==
    IF p.live[id].status = p.old[id].status THEN NotifsAbout(p, id) = {}
    ELSE IF p.live[id].status = "PROPOSAL_STATUS_VOTING_PERIOD"
    THEN NotifsAbout(p, id) = {[prop_id |-> id, notif_type |-> "new_voting_period"]}
    ELSE IF p.live[id].status \in FinalStatuses
    THEN NotifsAbout(p, id) = {[prop_id |-> id, notif_type |-> "final_result"]}
    ELSE TRUE

\* C15: for a cached proposal, a poll that finds a different status sends
\* 'entered voting' for VOTING_PERIOD and 'final result' for PASSED,
\* REJECTED or FAILED; the transition is notified once (the next poll with
\* the same status sends nothing) and an unchanged status sends nothing.
C15_StatusTransitions ==
    [][(lastGov'.polled /\ lastGov'.ok)
       => /\ \A id \in DOMAIN lastGov'.live \cap DOMAIN lastGov'.old :
                TransitionNotified(lastGov', id)
          /\ (lastGov.polled /\ lastGov.ok)
             => \A id \in DOMAIN lastGov'.live \cap DOMAIN lastGov.live :
                   lastGov'.live[id].status = lastGov.live[id].status
                   => NotifsAbout(lastGov', id) = {}]_vars

C15_Witness ==
    /\ lastGov.polled /\ lastGov.ok
    /\ DOMAIN lastGov.old = ProposalIds /\ DOMAIN lastGov.live = ProposalIds
    /\ lastGov.old["1"].status = "PROPOSAL_STATUS_VOTING_PERIOD"
    /\ lastGov.live["1"].status = "PROPOSAL_STATUS_PASSED"
    /\ lastGov.old["2"].status = "PROPOSAL_STATUS_DEPOSIT_PERIOD"
    /\ lastGov.live["2"].status = "PROPOSAL_STATUS_VOTING_PERIOD"
    /\ lastGov.notifs = {[prop_id |-> "1", notif_type |-> "final_result"],
                         [prop_id |-> "2", notif_type |-> "new_voting_period"]}

\* C16: a cached proposal that is absent from the live list of a successful
\* poll is removed from the cache by that poll and causes no notification.
C16_DisappearingProposals ==
    (lastGov.polled /\ lastGov.ok)
    => \A id \in DOMAIN lastGov.old \ DOMAIN lastGov.live :
          /\ id \notin DOMAIN governance_proposals_cache[lastGov.chain_name]
          /\ NotifsAbout(lastGov, id) = {}

C16_Witness ==
    /\ lastGov.polled /\ lastGov.ok
    /\ DOMAIN lastGov.old = ProposalIds
    /\ DOMAIN lastGov.live = {"2"}
    /\ lastGov.old["1"].status = "PROPOSAL_STATUS_VOTING_PERIOD"
    /\ DOMAIN governance_proposals_cache[lastGov.chain_name] = {"2"}

\* C17: a governance notification goes to every resolvable channel whose
\* row for the chain has notify_gov_enabled, with the mention of that row
\* (@here, @everyone or none), and to no channel whose row has it off; a
\* failed send or an unresolvable channel does not stop the other rows.
C17_GovFanout ==
    (lastGov.polled /\ lastGov.notifs # {})
    => \A r \in {x \in chain_prefs : x.chain_name = lastGov.chain_name} :
          /\ (r.notify_gov_enabled /\ lastGov.outcomes[r.channel_id] = "ok")
             => [channel_id |-> r.channel_id,
                 content |-> CASE r.mention_type = "here" -> "@here"
                               [] r.mention_type = "everyone" -> "@everyone"
                               [] OTHER -> None,
                 result |-> "sent"] \in lastGov.deliveries
          /\ ~r.notify_gov_enabled
             => \A d \in lastGov.deliveries :
                   d.channel_id = r.channel_id => d.result # "sent"

C17_Witness ==
    /\ lastGov.polled /\ lastGov.notifs # {}
    /\ lastGov.outcomes["ch1"] \in {"no_channel", "send_raises"}
    /\ \E r \in chain_prefs : r.channel_id = "ch1" /\ r.notify_gov_enabled
    /\ [channel_id |-> "ch2", content |-> "@everyone", result |-> "sent"]
           \in lastGov.deliveries

-----------------------------------------------------------------------------
(* Upgrade monitor of the cog: one step is one iteration of the loop over
   chains_to_monitor in MonitoringTasks.monitor_upgrades. *)

\* a rule that stays silent while nothing is cached, as the governance
\* monitor does on its first poll
UpgNotifSeedsSilently(old_plan, current_plan) ==
    IF current_plan # NoPlan /\ old_plan # NoPlan
       /\ current_plan.name # old_plan.name
    THEN "new_plan"
    ELSE "none"

\* the only rule of the cog: a plan is present and nothing is cached or the
\* cached name differs
UpgNotif(old_plan, current_plan) ==
    IF current_plan # NoPlan
       /\ (old_plan = NoPlan \/ current_plan.name # old_plan.name)
    THEN "new_plan"
    ELSE "none"

\* the try block of the loop body of monitor_upgrades for one chain
UpgradePoll(chain_name, response, current_height, outcomes) ==
    LET old_plan == DictGet(upgrade_plan_cache, chain_name, NoPlan)
       IN  IF response.raised
           THEN /\ UNCHANGED upgrade_plan_cache
                /\ lastUpg' = UpgRecord(chain_name, response, old_plan, "none",
                                  NoPlan, outcomes, {}, NoEmbed)
           ELSE LET current_plan == IF response.status_code = 200
                                    THEN response.plan ELSE NoPlan
                    notif == UpgNotif(old_plan, current_plan)
                    configs == get_chain_notification_preferences(chain_prefs,
                                                                  chain_name)
                    embed == UpgradeEmbed(current_plan, current_height)
                IN  IF notif = "none"
                    THEN /\ upgrade_plan_cache' =
                               DictSet(upgrade_plan_cache, chain_name, current_plan)
                         /\ lastUpg' = UpgRecord(chain_name, response, old_plan,
                                           "none", NoPlan, outcomes, {}, NoEmbed)
                    ELSE IF embed.raised
                    THEN \* the ValueError leaves send_upgrade_notification and
                         \* is logged by the except of the loop body
                         /\ UNCHANGED upgrade_plan_cache
                         /\ lastUpg' = UpgRecord(chain_name, response, old_plan,
                                           notif, current_plan, outcomes, {}, embed)
                    ELSE /\ upgrade_plan_cache' =
                               DictSet(upgrade_plan_cache, chain_name, current_plan)
                         /\ lastUpg' =
                               UpgRecord(chain_name, response, old_plan, notif,
                                   current_plan, outcomes,
                                   SendToConfigs(configs, "notify_upgrade_enabled",
                                                 outcomes),
                                   embed)

\* one iteration of the loop of monitor_upgrades
MonitorUpgrades(chain_name, response, current_height, outcomes) ==
    /\ chain_name \in get_all_chain_notification_chains(chain_prefs)
    /\ chain_name \in SupportedChains
    /\ "current_plan_endpoint" \in DOMAIN ChainConfig(chain_name)
    /\ UpgradePoll(chain_name, response, current_height, outcomes)
    /\ UNCHANGED <<chain_prefs, governance_proposals_cache, lastGov, chains_to_monitor>>
    /\ UNCHANGED validatorVars

NextUpg ==
    \E c \in ChainNames, r \in UpgResponses, h \in LatestHeights :
        \E o \in [Channels -> ChannelOutcomes] : MonitorUpgrades(c, r, h, o)

SpecUpg == InitChainMonitors /\ [][NextUpg]_vars

\* the poll found a plan: status 200 and a plan in the body
PlanPresent(p) ==
    ~p.response.raised /\ p.response.status_code = 200 /\ p.response.plan # NoPlan

\* the endpoint answered that no plan is set
NoPlanReported(p) ==
    ~p.response.raised /\ p.response.status_code = 200 /\ p.response.plan = NoPlan

\* C18: the new/changed-plan notification is sent exactly on the polls
\* where a plan is present and no plan is cached or the cached name
\* differs; of consecutive polls returning the same name only the first
\* sends it.
C18_NewOrChangedPlan ==
    [][lastUpg'.polled
       => /\ lastUpg'.notif = "new_plan"
             <=> /\ PlanPresent(lastUpg')
                 /\ \/ lastUpg'.old_plan = NoPlan
                    \/ lastUpg'.old_plan.name # lastUpg'.response.plan.name
          /\ lastUpg'.notif = "new_plan"
             => lastUpg'.notif_plan = lastUpg'.response.plan
          /\ (/\ lastUpg.polled /\ PlanPresent(lastUpg) /\ PlanPresent(lastUpg')
              /\ lastUpg'.response.plan.name = lastUpg.response.plan.name)
             => lastUpg'.notif = "none"]_vars

\* C19: on a poll where a plan is cached and the endpoint reports no plan,
\* a completed-or-cancelled notification naming the cached plan is sent,
\* once; later polls with no plan send nothing.
C19_CompletedOrCancelled ==
    (lastUpg.polled /\ NoPlanReported(lastUpg))
    => IF lastUpg.old_plan # NoPlan
       THEN /\ lastUpg.notif = "completed_or_cancelled"
            /\ lastUpg.notif_plan.name = lastUpg.old_plan.name
       ELSE lastUpg.notif = "none"

\* C21: after every poll in which the plan endpoint returned a response,
\* the chain's cached plan is the plan of that response (or no plan), also
\* when building or sending that poll's notification failed.
C21_UnconditionalCacheUpdate ==
    (lastUpg.polled /\ ~lastUpg.response.raised)
    => /\ lastUpg.chain_name \in DOMAIN upgrade_plan_cache
       /\ upgrade_plan_cache[lastUpg.chain_name] =
             IF lastUpg.response.status_code = 200 THEN lastUpg.response.plan
             ELSE NoPlan

\* C22: for a plan with target height h > 0 the notification reports
\* max(h - c, 0) blocks remaining (reached when h <= c) when the latest
\* height c is available, and computes no value, so does not report the
\* plan as reached, when the latest height is unavailable.
C22_BlocksRemaining ==
    (lastUpg.polled /\ lastUpg.notif = "new_plan" /\ ~lastUpg.embed.raised
        /\ IntOf(lastUpg.notif_plan.height) > 0)
    => LET h == IntOf(lastUpg.notif_plan.height)
           c == lastUpg.embed.current_height
           shown == lastUpg.embed.blocks_remaining
       IN  IF c.ok
           THEN IF h > c.height
                THEN shown = [text |-> "number", value |-> h - c.height]
                ELSE shown = [text |-> "Reached", value |-> 0]
           ELSE shown.text \notin {"number", "Reached"}

-----------------------------------------------------------------------------
(* Upgrade monitor of the single-file bot: one step is one iteration of the
   loop over chains_to_monitor_upgrade in bot.py monitor_upgrades. *)

\* the truth value of e.response in the RequestException handler: a
\* requests.Response is truthy only when its status code is below 400
ExcResponseTruthy(response) == response.status_code < 400

\* the two rules of the try block
MonoUpgNotif(old_plan, current_plan) ==
    IF current_plan # NoPlan
       /\ (old_plan = NoPlan \/ current_plan.name # old_plan.name)
    THEN "new_plan"
    ELSE IF old_plan # NoPlan /\ current_plan = NoPlan
    THEN "completed_or_cancelled"
    ELSE "none"

\* mention_text of bot.py send_upgrade_notification starts as ""
MonoDeliveries(deliveries) ==
    {[d EXCEPT !.content = IF d.content = None THEN "" ELSE d.content] :
        d \in deliveries}

MonoMonitorUpgrades(chain_name, response, current_height, outcomes) ==
    /\ chain_name \in get_all_chain_notification_chains(chain_prefs)
    /\ chain_name \in SupportedChains
    /\ "current_plan_endpoint" \in DOMAIN ChainConfig(chain_name)
    /\ LET old_plan == DictGet(upgrade_plan_cache, chain_name, NoPlan)
           configs == get_chain_notification_preferences(chain_prefs, chain_name)
           sent == MonoDeliveries(SendToConfigs(configs, "notify_upgrade_enabled",
                                                outcomes))
       IN  IF response.raised
           THEN \* requests.get raised: e.response is None, the error is printed
                /\ UNCHANGED upgrade_plan_cache
                /\ lastUpg' = UpgRecord(chain_name, response, old_plan, "none",
                                  NoPlan, outcomes, {}, NoEmbed)
           ELSE IF response.status_code >= 400
           THEN \* raise_for_status raised an HTTPError carrying the response
                IF ExcResponseTruthy(response) /\ response.status_code = 404
                THEN /\ upgrade_plan_cache' =
                           DictSet(upgrade_plan_cache, chain_name, NoPlan)
                     /\ lastUpg' =
                           IF old_plan # NoPlan
                           THEN UpgRecord(chain_name, response, old_plan,
                                    "completed_or_cancelled", old_plan, outcomes,
                                    sent, NoEmbed)
                           ELSE UpgRecord(chain_name, response, old_plan, "none",
                                    NoPlan, outcomes, {}, NoEmbed)
                ELSE /\ UNCHANGED upgrade_plan_cache
                     /\ lastUpg' = UpgRecord(chain_name, response, old_plan, "none",
                                       NoPlan, outcomes, {}, NoEmbed)
           ELSE LET current_plan == response.plan
                    notif == MonoUpgNotif(old_plan, current_plan)
                    embed == MonoUpgradeEmbed(current_plan, current_height)
                IN  IF notif = "new_plan" /\ embed.raised
                    THEN \* the ValueError is printed by except Exception
                         /\ UNCHANGED upgrade_plan_cache
                         /\ lastUpg' = UpgRecord(chain_name, response, old_plan,
                                           notif, current_plan, outcomes, {}, embed)
                    ELSE /\ upgrade_plan_cache' =
                               DictSet(upgrade_plan_cache, chain_name, current_plan)
                         /\ lastUpg' =
                               UpgRecord(chain_name, response, old_plan, notif,
                                   IF notif = "new_plan" THEN current_plan
                                   ELSE IF notif = "completed_or_cancelled"
                                   THEN old_plan
                                   ELSE NoPlan,
                                   outcomes,
                                   IF notif = "none" THEN {} ELSE sent,
                                   IF notif = "new_plan" THEN embed ELSE NoEmbed)
    /\ UNCHANGED <<chain_prefs, governance_proposals_cache, lastGov, chains_to_monitor>>
    /\ UNCHANGED validatorVars

NextMonoUpg ==
    \E c \in ChainNames, r \in UpgResponses, h \in LatestHeights :
        \E o \in [Channels -> ChannelOutcomes] : MonoMonitorUpgrades(c, r, h, o)

SpecMonoUpg == InitChainMonitors /\ [][NextMonoUpg]_vars

\* C20: in bot.py a 404 from the current-plan endpoint is handled like a
\* 200 without a plan: a cached plan gets its completed-or-cancelled
\* notification and the cache is set to no plan; with nothing cached
\* nothing is sent; the cache is not left unchanged as after an error.
C20_NotFoundMeansNoPlan ==
    (lastUpg.polled /\ ~lastUpg.response.raised
        /\ lastUpg.response.status_code = 404)
    => /\ IF lastUpg.old_plan # NoPlan
          THEN /\ lastUpg.notif = "completed_or_cancelled"
               /\ lastUpg.notif_plan = lastUpg.old_plan
          ELSE lastUpg.notif = "none"
       /\ DictGet(upgrade_plan_cache, lastUpg.chain_name, NoPlan) = NoPlan

-----------------------------------------------------------------------------
(* The validator cycle over several registrations: two users who registered
   the same validator, each in a channel of their own, and a repository
   write that can raise (sqlite3.OperationalError). *)

BatchTable ==
    {Row("u1", "ch1", "empe", "empevaloper1", "m1", "UNKNOWN", -1, 0),
     Row("u2", "ch2", "empe", "empevaloper1", "m1", "UNKNOWN", -1, 0)}

InitBatch ==
    /\ lastCall = NoCall
    /\ db = BatchTable
    /\ now = 0
    /\ slashing_info_cache = [c \in SupportedChains |-> EmptyDict]
    /\ slashing_params_cache = [c \in SupportedChains |-> EmptyDict]
    /\ validators_to_monitor = << >>
    /\ lastPoll = NoPoll
    /\ InitChains
    /\ chain_prefs = {}

\* check_and_notify_validator_status for the next row when the call of
\* update_validator_status it reaches raises: nothing is persisted and the
\* exception leaves the handler and the loop of monitor_validators
CheckAndNotifyWriteRaises(resp, channel_found) ==
    /\ validators_to_monitor # << >>
    /\ LET val_data == Head(validators_to_monitor)
           chain_config == ChainConfig(val_data.chain_name)
           status_info == get_validator_info(chain_config, resp,
                              slashing_info_cache[val_data.chain_name],
                              slashing_params_cache[val_data.chain_name])
           d == IF status_info.success
                THEN Classify(val_data.old_status, status_info)
                ELSE Decision(FALSE, TitleDefault, "API_ERROR")
       IN  /\ IF status_info.success
              THEN ~(d.send_notification /\ ~channel_found)
              ELSE val_data.old_status # "API_ERROR"
           /\ lastPoll' = PollRecord(val_data, status_info, d, "raised", FALSE, None)
    /\ validators_to_monitor' = RemainingRows(validators_to_monitor, lastPoll'.dispatch)
    /\ UNCHANGED <<db, now, slashing_info_cache, slashing_params_cache, lastCall>>
    /\ UNCHANGED chainVars

\* the staking answers of this scenario: a network failure, or the
\* validator bonded, jailed or not
BatchResponses ==
    {r \in StakingResponses :
        IF r.ok THEN r.moniker = "m1" /\ r.pubkey = "pk1"
                     /\ r.status = "BOND_STATUS_BONDED"
        ELSE r.failure = "network"}

\* the slashing endpoints are down in this scenario: missed_blocks is -1
NextBatch ==
    \/ MonitorValidatorsBegin(NoSlashingData, NoSlashingData)
    \/ \E r \in BatchResponses, found \in BOOLEAN, sent \in BOOLEAN :
          CheckAndNotifyValidatorStatus(r, found, sent)
    \/ \E r \in BatchResponses, found \in BOOLEAN :
          CheckAndNotifyWriteRaises(r, found)

SpecBatch == InitBatch /\ [][NextBatch]_vars

\* C23: when the alert of one validator cannot be delivered (channel not
\* resolvable, or the send raising), the handler returns and the loop goes on
\* with the rows that follow it in the cycle's list
C23_DeliveryErrorsIsolated ==
    [][(validators_to_monitor # << >>
          /\ lastPoll'.dispatch \in {"no_channel", "send_failed"})
       => validators_to_monitor' = Tail(validators_to_monitor)]_vars

\* an undelivered alert for one row with another row of the cycle still queued
C23_Witness ==
    /\ lastPoll.dispatch \in {"no_channel", "send_failed"}
    /\ lastPoll.send_notification
    /\ Len(validators_to_monitor) = 1

\* C24: whatever happens while one validator is processed, the validators
\* after it in the cycle's list are still processed
C24_NoFailureAbortsBatch ==
    [][validators_to_monitor # << >>
       => validators_to_monitor' = Tail(validators_to_monitor)]_vars

\* C26: a write made while processing the registration of one user leaves the
\* rows of every other registration as they were
C26_SingleRowUpdate ==
    [][validators_to_monitor # << >>
       => \A r \in db :
             r.user_id # Head(validators_to_monitor).user_id => r \in db']_vars

----------------------------------------------------------------------------
(* The chain cycles of the cog: monitor_governance and monitor_upgrades walk
   the chains that have preference rows, one chain after the other *)

\* two supported chains with one subscribed channel each, and a row left
\* from a chain that is no longer configured
CyclePrefs ==
    {PrefRow("ch1", "empe", TRUE, TRUE, "here"),
     PrefRow("ch2", "lumera", TRUE, TRUE, None),
     PrefRow("ch2", "osmosis", TRUE, TRUE, None)}

InitCycle ==
    /\ InitValidators
    /\ InitChains
    /\ chain_prefs = CyclePrefs

\* the chain names in any order (the query has no ORDER BY)
RECURSIVE ChainSeqs(_)
ChainSeqs(chains) ==
    IF chains = {} THEN {<< >>}
    ELSE UNION {{<<c>> \o q : q \in ChainSeqs(chains \ {c})} : c \in chains}

\* monitor_governance or monitor_upgrades up to its loop over the chains
MonitorChainsBegin(task) ==
    /\ chains_to_monitor.chains = << >>
    /\ \E q \in ChainSeqs(get_all_chain_notification_chains(chain_prefs)) :
          chains_to_monitor' = [task |-> task, chains |-> q]
    /\ UNCHANGED <<chain_prefs, governance_proposals_cache, upgrade_plan_cache,
                   lastGov, lastUpg>>
    /\ UNCHANGED validatorVars

\* a loop that gives up the cycle when the body of one chain failed
RemainingChainsStopsOnFailure(chains, failed) ==
    IF failed THEN << >> ELSE Tail(chains)

\* the for loops over chains_to_monitor: the except clause closing the loop
\* body logs the failure of one chain and the next chain follows
RemainingChains(chains, failed) == Tail(chains)

\* whether the loop body skips the chain with `continue`
SkipsChain(chain_name, endpoint) ==
    chain_name \notin SupportedChains \/ endpoint \notin DOMAIN ChainConfig(chain_name)

\* one iteration of the loop of monitor_governance within a cycle
GovernanceCycleStep(response, outcomes) ==
    /\ chains_to_monitor.task = "gov"
    /\ chains_to_monitor.chains # << >>
    /\ LET chain_name == Head(chains_to_monitor.chains)
       IN  IF SkipsChain(chain_name, "gov_proposals_endpoint")
           THEN /\ UNCHANGED <<governance_proposals_cache, lastGov>>
                /\ chains_to_monitor' =
                      [chains_to_monitor EXCEPT !.chains = Tail(@)]
           ELSE /\ GovernancePoll(chain_name, response, outcomes)
                /\ chains_to_monitor' =
                      [chains_to_monitor EXCEPT
                          !.chains = RemainingChains(@, ~response.ok)]
    /\ UNCHANGED <<chain_prefs, upgrade_plan_cache, lastUpg>>
    /\ UNCHANGED validatorVars

\* one iteration of the loop of monitor_upgrades within a cycle
UpgradeCycleStep(response, current_height, outcomes) ==
    /\ chains_to_monitor.task = "upg"
    /\ chains_to_monitor.chains # << >>
    /\ LET chain_name == Head(chains_to_monitor.chains)
       IN  IF SkipsChain(chain_name, "current_plan_endpoint")
           THEN /\ UNCHANGED <<upgrade_plan_cache, lastUpg>>
                /\ chains_to_monitor' =
                      [chains_to_monitor EXCEPT !.chains = Tail(@)]
           ELSE /\ UpgradePoll(chain_name, response, current_height, outcomes)
                /\ chains_to_monitor' =
                      [chains_to_monitor EXCEPT
                          !.chains = RemainingChains(@, response.raised)]
    /\ UNCHANGED <<chain_prefs, governance_proposals_cache, lastGov>>
    /\ UNCHANGED validatorVars

\* the answers of this scenario: the fetch failing, one proposal in voting,
\* a second proposal next to it; the fetch failing, no plan, plan v2
CycleGovResponses ==
    {r \in GovResponses :
        r.ok => /\ DOMAIN r.proposals \in {{"1"}, {"1", "2"}}
                /\ \A i \in DOMAIN r.proposals :
                      r.proposals[i].status = "PROPOSAL_STATUS_VOTING_PERIOD"}
CycleUpgResponses ==
    {r \in UpgResponses :
        ~r.raised => r.status_code = 200 /\ r.plan \in {NoPlan, [name |-> "v2", height |-> "100"]}}
CycleOutcomes == {[c \in Channels |-> "ok"]}

NextCycle ==
    \/ \E task \in {"gov", "upg"} : MonitorChainsBegin(task)
    \/ \E r \in CycleGovResponses, o \in CycleOutcomes : GovernanceCycleStep(r, o)
    \/ \E r \in CycleUpgResponses, o \in CycleOutcomes :
          UpgradeCycleStep(r, [ok |-> TRUE, height |-> 50], o)

SpecCycle == InitCycle /\ [][NextCycle]_vars

\* C25: when the fetch of one chain fails with an exception in a governance or
\* upgrade cycle, the chain's cache entry stays as it was, nothing is sent
\* for the chain, and the cycle goes on with the chains that follow it
C25_PerChainIsolation ==
    [][/\ (/\ chains_to_monitor.task = "gov"
           /\ chains_to_monitor.chains # << >>
           /\ ~lastGov'.ok)
          => /\ governance_proposals_cache' = governance_proposals_cache
             /\ lastGov'.notifs = {} /\ lastGov'.deliveries = {}
             /\ chains_to_monitor'.chains = Tail(chains_to_monitor.chains)
       /\ (/\ chains_to_monitor.task = "upg"
           /\ chains_to_monitor.chains # << >>
           /\ lastUpg'.response.raised)
          => /\ upgrade_plan_cache' = upgrade_plan_cache
             /\ lastUpg'.notif = "none" /\ lastUpg'.deliveries = {}
             /\ chains_to_monitor'.chains = Tail(chains_to_monitor.chains)]_vars

\* the first chain of a governance cycle failed with its cache seeded, and the
\* other chain is still to be polled
C25_Witness ==
    /\ chains_to_monitor.task = "gov"
    /\ chains_to_monitor.chains \in {<<"empe">>, <<"lumera">>}
    /\ lastGov.polled /\ ~lastGov.ok /\ lastGov.seeded
    /\ lastGov.chain_name # Head(chains_to_monitor.chains)

----------------------------------------------------------------------------
(* The register and unregister commands of cogs/validator_commands.py *)

RegistryUsers == {"u1", "u2"}

\* chain names as users type them
TypedChains == ChainNames \cup {"EMPE"}

\* str.lower() on the chain names users type
Lower(chain_name) == IF chain_name = "EMPE" THEN "empe" ELSE chain_name

\* lookups of the register command: a network failure or validator m1
RegistryLookups ==
    {r \in RegisterLookups : IF r.ok THEN r.moniker = "m1" ELSE r.failure = "network"}

\* the table when the bot starts: empty, or a row a monitoring cycle has
\* already updated
RegistryTables ==
    {{}, {Row("u1", "ch1", "empe", "empevaloper1", "m2", "JAILED", -1, 0)}}

InitRegistry ==
    /\ lastCall = NoCall
    /\ db \in RegistryTables
    /\ now = 0
    /\ slashing_info_cache = [c \in SupportedChains |-> EmptyDict]
    /\ slashing_params_cache = [c \in SupportedChains |-> EmptyDict]
    /\ validators_to_monitor = << >>
    /\ lastPoll = NoPoll
    /\ InitChains
    /\ chain_prefs = {}

\* what a command was called with and what it replied
CommandCall(op, user_id, channel_id, chain_name, validator_address, lookup_ok, reply) ==
    [op |-> op, user_id |-> user_id, channel_id |-> channel_id,
     chain_name |-> chain_name, validator_address |-> validator_address,
     lookup_ok |-> lookup_ok, reply |-> reply]

\* a register command that accepts any address
RegisterOutcomeSkipsPrefix(chain_name, validator_address, resp) ==
    IF chain_name \notin SupportedChains THEN "unsupported"
    ELSE IF ~get_validator_info(ChainConfig(chain_name), resp,
                                EmptyDict, EmptyDict).success
    THEN "not_found"
    ELSE "lookup_ok"

\* the three early returns of register, for the lower-cased chain name
RegisterOutcome(chain_name, validator_address, resp) ==
    IF chain_name \notin SupportedChains THEN "unsupported"
    ELSE IF ~StartsWith(validator_address, ChainConfig(chain_name).valoper_prefix)
    THEN "bad_format"
    ELSE IF ~get_validator_info(ChainConfig(chain_name), resp,
                                EmptyDict, EmptyDict).success
    THEN "not_found"
    ELSE "lookup_ok"

\* ValidatorCommands.register, with the channel the command was typed in
RegisterCommand(user_id, channel_id, typed_chain, validator_address, resp) ==
    /\ LET chain_name == Lower(typed_chain)
           outcome == RegisterOutcome(chain_name, validator_address, resp)
       IN  IF outcome # "lookup_ok"
           THEN /\ UNCHANGED db
                /\ lastCall' = CommandCall("register", user_id, channel_id,
                                   typed_chain, validator_address, resp.ok, outcome)
           ELSE /\ db' = add_validator(db, user_id, channel_id, chain_name,
                             validator_address, resp.moniker, now)
                /\ lastCall' = CommandCall("register", user_id, channel_id,
                                   typed_chain, validator_address, resp.ok,
                                   IF HasRow(db, user_id, chain_name, validator_address)
                                   THEN "already_registered" ELSE "success")
    /\ UNCHANGED <<now, slashing_info_cache, slashing_params_cache,
                   validators_to_monitor, lastPoll>>
    /\ UNCHANGED chainVars

\* ValidatorCommands.unregister
UnregisterCommand(user_id, channel_id, typed_chain, validator_address) ==
    /\ LET chain_name == Lower(typed_chain)
       IN  IF chain_name \notin SupportedChains
           THEN /\ UNCHANGED db
                /\ lastCall' = CommandCall("unregister", user_id, channel_id,
                                   typed_chain, validator_address, FALSE,
                                   "unsupported")
           ELSE /\ db' = remove_validator(db, user_id, chain_name, validator_address)
                /\ lastCall' = CommandCall("unregister", user_id, channel_id,
                                   typed_chain, validator_address, FALSE,
                                   IF HasRow(db, user_id, chain_name, validator_address)
                                   THEN "removed" ELSE "not_in_list")
    /\ UNCHANGED <<now, slashing_info_cache, slashing_params_cache,
                   validators_to_monitor, lastPoll>>
    /\ UNCHANGED chainVars

NextRegistry ==
    \E u \in RegistryUsers, ch \in Channels, c \in TypedChains, a \in Addresses :
        \/ \E r \in RegistryLookups : RegisterCommand(u, ch, c, a, r)
        \/ UnregisterCommand(u, ch, c, a)

SpecRegistry == InitRegistry /\ [][NextRegistry]_vars

\* the registration a command call is about
CallHasRow(table, call) ==
    HasRow(table, call.user_id, Lower(call.chain_name), call.validator_address)

\* C27: registering a (user, chain, address) that already has a row is
\* answered with the failure reply and leaves the table as it was, and after
\* any sequence of registrations and removals no key has two rows
C27_DuplicateRegistration ==
    [][/\ (/\ lastCall'.op = "register"
           /\ lastCall'.reply \in {"success", "already_registered"}
           /\ CallHasRow(db, lastCall'))
          => lastCall'.reply = "already_registered" /\ db' = db
       /\ \A r1, r2 \in db' :
             (/\ r1.user_id = r2.user_id
              /\ r1.chain_name = r2.chain_name
              /\ r1.validator_address = r2.validator_address) => r1 = r2]_vars

\* a second registration of a key, typed in another channel than the first
C27_Witness ==
    /\ lastCall.op = "register"
    /\ lastCall.reply = "already_registered"
    /\ \E r \in db : /\ r.user_id = lastCall.user_id
                     /\ r.validator_address = lastCall.validator_address
                     /\ r.channel_id # lastCall.channel_id

\* C28: the register command adds a row only for a supported chain, an
\* address with the chain's valoper prefix and a successful lookup, and it
\* changes nothing else in the table
C28_RegisterPreconditions ==
    [][lastCall'.op = "register"
       => /\ db \subseteq db'
          /\ \A r \in db' \ db :
                /\ r.user_id = lastCall'.user_id
                /\ r.chain_name = Lower(lastCall'.chain_name)
                /\ r.validator_address = lastCall'.validator_address
          /\ db' # db
             => /\ Lower(lastCall'.chain_name) \in SupportedChains
                /\ StartsWith(lastCall'.validator_address,
                      ChainConfig(Lower(lastCall'.chain_name)).valoper_prefix)
                /\ lastCall'.lookup_ok]_vars

\* a registration that passed the three tests and created its row
C28_Witness ==
    /\ lastCall.op = "register"
    /\ lastCall.reply = "success"
    /\ lastCall.chain_name = "EMPE"
    /\ CallHasRow(db, lastCall)

----------------------------------------------------------------------------
(* Calls of utils.api_helpers.get_validator_info on their own *)

\* chain configurations handed to the resolver: the two configured chains,
\* and an entry of the configuration file without token_symbol
ResolverConfigs ==
    {ChainConfig("empe"), ChainConfig("lumera"),
     [k \in DOMAIN ChainConfig("empe") \ {"token_symbol"} |-> ChainConfig("empe")[k]]}

\* staking answers, and answers whose validator has no consensus_pubkey
ResolverResponses ==
    StakingResponses \cup
    [ok : {TRUE}, moniker : {"m1"}, jailed : BOOLEAN,
     status : {"BOND_STATUS_BONDED"}, pubkey : {MissingKey}]

\* what the caller of get_validator_info gets: the KeyError of lines 48-50,
\* or the record returned from the try block or an except clause
ResolverCall(chain_config, resp, info_cache, params_cache) ==
    IF ConfigLookupRaises(chain_config)
    THEN [raised |-> TRUE, result |-> [success |-> FALSE, error |-> "KeyError"]]
    ELSE [raised |-> FALSE,
          result |-> get_validator_info(chain_config, resp, info_cache, params_cache)]

InitResolver ==
    /\ InitValidators
    /\ InitChains
    /\ chain_prefs = {}

\* one call of get_validator_info
Resolve(chain_config, resp, info_cache, params_cache) ==
    /\ LET call == ResolverCall(chain_config, resp, info_cache, params_cache)
       IN  lastCall' = [op |-> "get_validator_info", chain_config |-> chain_config,
                        resp |-> resp, info_cache |-> info_cache,
                        params_cache |-> params_cache,
                        raised |-> call.raised, result |-> call.result]
    /\ UNCHANGED <<db, now, slashing_info_cache, slashing_params_cache,
                   validators_to_monitor, lastPoll>>
    /\ UNCHANGED chainVars

NextResolver ==
    \E cfg \in ResolverConfigs, r \in ResolverResponses :
        \E i \in SigningInfos, p \in SlashingParams : Resolve(cfg, r, i, p)

SpecResolver == InitResolver /\ [][NextResolver]_vars

\* C29: get_validator_info never raises: whatever the staking request gives
\* and whatever chain configuration it is passed, a failure comes back as a
\* record with success false and an error
C29_ResolverNeverRaises ==
    lastCall.op = "get_validator_info"
    => /\ ~lastCall.raised
       /\ ~lastCall.resp.ok
          => /\ ~lastCall.result.success
             /\ "error" \in DOMAIN lastCall.result

\* the resolver was asked about a validator whose consensus address cannot
\* be derived, or has no entry in the signing-info cache
NoMissedBlockData(call) ==
    /\ call.resp.ok
    /\ call.resp.pubkey # MissingKey
    /\ LET cons == pubkey_to_consensus_address(call.resp.pubkey,
                                               call.chain_config.valcons_prefix)
       IN  cons = None \/ cons \notin DOMAIN call.info_cache

\* C30: with the staking request answered, a consensus address that cannot be
\* derived or is absent from the signing-info cache gives success with
\* missed_blocks -1 and the moniker, jailed flag and status of the answer
C30_MissedBlocksDegrade ==
    (/\ lastCall.op = "get_validator_info"
     /\ ~lastCall.raised
     /\ NoMissedBlockData(lastCall))
    => /\ lastCall.result.success
       /\ lastCall.result.missed_blocks = -1
       /\ lastCall.result.moniker = lastCall.resp.moniker
       /\ lastCall.result.jailed = lastCall.resp.jailed
       /\ lastCall.result.status = IF lastCall.resp.jailed THEN "JAILED"
                                   ELSE BondDisplay(lastCall.resp.status)

\* both caches hold data, the chain tracks missed blocks, and the derived
\* address has no entry
C30_Witness ==
    /\ lastCall.op = "get_validator_info"
    /\ ~lastCall.raised
    /\ MissedSupported(lastCall.chain_config)
    /\ Truthy(lastCall.info_cache) /\ Truthy(lastCall.params_cache)
    /\ lastCall.resp.ok /\ lastCall.resp.pubkey = "pk1"
    /\ "empevalcons1" \notin DOMAIN lastCall.info_cache
    /\ lastCall.result.success /\ lastCall.result.missed_blocks = -1

----------------------------------------------------------------------------
(* Calls of pubkey_to_consensus_address, next to calls of the resolver *)

\* base64 strings of consensus keys: 32 bytes, 33 bytes with and without the
\* compressed-key marker, 36 bytes with the Amino prefix, 10 bytes, and a
\* string that does not decode
KeyStrings == {"pk1", "k33", "k33odd", "k36", "k10", "notbase64"}
ValconsPrefixes == {"empevalcons", "lumeravalcons"}

\* the payloads a bech32 address of the model can carry
Payloads == {"0", "1", "3", "5", "6", "a6"}

\* one call of utils.api_helpers.pubkey_to_consensus_address
Derive(pubkey_b64, valcons_prefix) ==
    /\ lastCall' = [op |-> "pubkey_to_consensus_address", impl |-> "cog",
                    pubkey_b64 |-> pubkey_b64, valcons_prefix |-> valcons_prefix,
                    result |-> pubkey_to_consensus_address(pubkey_b64, valcons_prefix)]
    /\ UNCHANGED <<db, now, slashing_info_cache, slashing_params_cache,
                   validators_to_monitor, lastPoll>>
    /\ UNCHANGED chainVars

\* one call of pubkey_to_consensus_address of bot.py
MonoDerive(pubkey_b64, valcons_prefix) ==
    /\ lastCall' = [op |-> "pubkey_to_consensus_address", impl |-> "mono",
                    pubkey_b64 |-> pubkey_b64, valcons_prefix |-> valcons_prefix,
                    result |-> mono_pubkey_to_consensus_address(pubkey_b64,
                                                                valcons_prefix)]
    /\ UNCHANGED <<db, now, slashing_info_cache, slashing_params_cache,
                   validators_to_monitor, lastPoll>>
    /\ UNCHANGED chainVars

NextDerive ==
    \/ \E k \in KeyStrings, p \in ValconsPrefixes : Derive(k, p)
    \/ \E k \in KeyStrings, p \in ValconsPrefixes : MonoDerive(k, p)
    \/ NextResolver

SpecDerive == InitResolver /\ [][NextDerive]_vars

\* the decoded key is 32 bytes, 33 bytes starting with 0x02/0x03, or 36 bytes
\* with the Amino prefix
RecognisedKey(bytes) ==
    \/ bytes.length = 32
    \/ bytes.length = 33 /\ bytes.head \in {"02", "03"}
    \/ bytes.length = 36 /\ bytes.head = "amino"

\* C31: for a recognised key the derivation returns a bech32 string with the
\* given prefix, and for a decoded key of any other byte length it returns None
C31_AddressDerivation ==
    (lastCall.op = "pubkey_to_consensus_address" /\ lastCall.impl = "cog")
    => LET bytes == b64decode(lastCall.pubkey_b64)
       IN  /\ (bytes.ok /\ RecognisedKey(bytes))
              => \E d \in Payloads :
                    lastCall.result = bech32_encode(lastCall.valcons_prefix, d)
           /\ (bytes.ok /\ bytes.length \notin {32, 33, 36})
              => lastCall.result = None

\* C33: after a successful poll the persisted moniker is the moniker the
\* chain returned in that poll, alert or not, delivered or not, and after a
\* failed poll the persisted moniker is what it was
C33_MonikerDrift ==
    [][PollStep
       => LET val_data == Head(validators_to_monitor)
          IN  /\ lastPoll'.success
                 => \A r \in PersistedRows(db', val_data) :
                       r.moniker = lastPoll'.moniker
              /\ ~lastPoll'.success
                 => \A r \in PersistedRows(db', val_data) :
                       r.moniker = val_data.old_moniker]_vars

----------------------------------------------------------------------------
(* The validator cycle with the commands of one user running between its
   steps: the cycle reads its list once and awaits the network for every row,
   and command handlers run while it waits *)

\* UPDATE validators SET notifications_enabled = ? WHERE user_id = ? AND
\* chain_name = ? AND validator_address = ?
set_validator_notifications(table, user_id, chain_name, validator_address, enabled) ==
    {IF /\ r.user_id = user_id
        /\ r.chain_name = chain_name
        /\ r.validator_address = validator_address
     THEN [r EXCEPT !.notifications_enabled = enabled]
     ELSE r : r \in table}

\* the set_notifications command
SetNotificationsCommand(user_id, typed_chain, validator_address, enabled) ==
    /\ LET chain_name == Lower(typed_chain)
       IN  IF chain_name \notin SupportedChains
           THEN /\ UNCHANGED db
                /\ lastCall' = CommandCall("set_notifications", user_id, None,
                                   typed_chain, validator_address, FALSE,
                                   "unsupported")
           ELSE /\ db' = set_validator_notifications(db, user_id, chain_name,
                                                     validator_address, enabled)
                /\ lastCall' = CommandCall("set_notifications", user_id, None,
                                   typed_chain, validator_address, FALSE,
                                   IF ~HasRow(db, user_id, chain_name, validator_address)
                                   THEN "not_in_list"
                                   ELSE IF enabled THEN "enabled" ELSE "disabled")
    /\ UNCHANGED <<now, slashing_info_cache, slashing_params_cache,
                   validators_to_monitor, lastPoll>>
    /\ UNCHANGED chainVars

\* one registration, made before the first cycle
InitInterleave ==
    /\ lastCall = NoCall
    /\ db = {Row("u1", "ch1", "empe", "empevaloper1", "m1", "UNKNOWN", -1, 0)}
    /\ now = 0
    /\ slashing_info_cache = [c \in SupportedChains |-> EmptyDict]
    /\ slashing_params_cache = [c \in SupportedChains |-> EmptyDict]
    /\ validators_to_monitor = << >>
    /\ lastPoll = NoPoll
    /\ InitChains
    /\ chain_prefs = {}

NextInterleave ==
    \/ \E enabled \in BOOLEAN :
          SetNotificationsCommand("u1", "empe", "empevaloper1", enabled)
    \/ UnregisterCommand("u1", "ch1", "empe", "empevaloper1")
    \/ \E r \in {l \in RegistryLookups : l.ok} :
          RegisterCommand("u1", "ch1", "empe", "empevaloper1", r)
    \/ MonitorValidatorsBegin(NoSlashingData, NoSlashingData)
    \/ \E r \in BatchResponses, found \in BOOLEAN, sent \in BOOLEAN :
          CheckAndNotifyValidatorStatus(r, found, sent)

SpecInterleave == InitInterleave /\ [][NextInterleave]_vars

\* C32: when a cycle is over, every registration's row was refreshed in that
\* cycle (or holds the API_ERROR of its failed poll), notifications enabled
\* or not, alert due or not
C32_StatusRefreshedEveryCycle ==
    (validators_to_monitor = << >> /\ now > 0)
    => \A r \in db : r.last_check_time = now \/ r.status = "API_ERROR"

\* C35: no alert is handed to a channel for a registration whose row has
\* been deleted or disabled since the cycle read its list, and the write-back
\* for a deleted registration does not bring its row back
C35_NoAlertAfterRemoval ==
    [][PollStep
       => LET val_data == Head(validators_to_monitor)
          IN  /\ (lastPoll'.send_notification /\ lastPoll'.dispatch = "delivered")
                 => \E r \in PersistedRows(db, val_data) : r.notifications_enabled
              /\ PersistedRows(db, val_data) = {}
                 => PersistedRows(db', val_data) = {}]_vars

----------------------------------------------------------------------------
(* The refresh of the slashing caches, with the answers of the cycle kept *)

\* the refresh of one cycle and what it found in the caches
RefreshCall(params_response, infos_response) ==
    [op |-> "refresh_slashing", cycle |-> now + 1,
     params_response |-> params_response, infos_response |-> infos_response,
     old_params |-> slashing_params_cache, old_info |-> slashing_info_cache]

MonitorValidatorsRefresh(params_response, infos_response) ==
    /\ BeginCycle(params_response, infos_response)
    /\ lastCall' = RefreshCall(params_response, infos_response)
    /\ UNCHANGED <<db, lastPoll>>
    /\ UNCHANGED chainVars

NextRefresh ==
    \/ \E p \in ParamsResponses, i \in InfosResponses :
          MonitorValidatorsRefresh(p, i)
    \/ \E r \in BatchResponses, found \in BOOLEAN, sent \in BOOLEAN :
          CheckAndNotifyValidatorStatus(r, found, sent)

SpecRefresh == InitInterleave /\ [][NextRefresh]_vars

\* C34: from the refresh of a cycle on, through the checks of that cycle, the
\* two slashing caches of a chain with missed_blocks_supported hold the
\* params and the signing infos fetched in this cycle, or both are empty
C34_CachesRefreshedTogether ==
    lastCall.op = "refresh_slashing"
    => /\ lastCall.cycle = now
       /\ \A c \in SupportedChains :
             MissedSupported(ChainConfig(c))
             => \/ /\ lastCall.params_response.ok
                   /\ lastCall.infos_response.ok
                   /\ slashing_params_cache[c] = lastCall.params_response.params
                   /\ slashing_info_cache[c] = lastCall.infos_response.info
                \/ /\ slashing_params_cache[c] = EmptyDict
                   /\ slashing_info_cache[c] = EmptyDict

\* a cycle whose params fetch worked and whose signing-infos fetch failed,
\* after a cycle that had filled both caches, with a row still to check
C34_Witness ==
    /\ lastCall.op = "refresh_slashing"
    /\ lastCall.params_response.ok
    /\ Truthy(lastCall.params_response.params)
    /\ ~lastCall.infos_response.ok
    /\ Truthy(lastCall.old_info["empe"])
    /\ Truthy(lastCall.old_params["empe"])
    /\ slashing_params_cache["empe"] = EmptyDict
    /\ validators_to_monitor # << >>

----------------------------------------------------------------------------
(* One episode of one registration: every successful poll of the behaviour
   reports the validator jailed, or every one reports it unjailed with the
   missed-blocks counter at the threshold; polls may fail in between *)

EpisodeKinds == {"jailed", "missed"}
EpisodeTitle(kind) == IF kind = "jailed" THEN TitleJailed ELSE TitleMissed

\* the slashing endpoints answer in every cycle of the episode
EpisodeParams == [ok |-> TRUE, params |-> [signed_blocks_window |-> 100]]
EpisodeInfos ==
    [ok |-> TRUE,
     info |-> [a \in ConsAddrs |->
                  [missed_blocks_counter |->
                      IF a = "empevalcons1" THEN MISSED_BLOCKS_THRESHOLD ELSE 0]]]

EpisodeResponses(kind) ==
    {r \in StakingResponses :
        r.ok => /\ r.jailed = (kind = "jailed")
                /\ r.pubkey = "pk1"
                /\ r.status = "BOND_STATUS_BONDED"}

\* one registration with a persisted status, before the first cycle
InitScenario(status, log) ==
    /\ lastCall = NoCall
    /\ db = {Row("u1", "ch1", "empe", "empevaloper1", "m1", status, -1, 0)}
    /\ now = 0
    /\ slashing_info_cache = [c \in SupportedChains |-> EmptyDict]
    /\ slashing_params_cache = [c \in SupportedChains |-> EmptyDict]
    /\ validators_to_monitor = << >>
    /\ lastPoll = NoPoll
    /\ chain_prefs = {}
    /\ governance_proposals_cache = EmptyDict
    /\ upgrade_plan_cache = EmptyDict
    /\ lastGov = NoGov
    /\ lastUpg = NoUpg
    /\ chains_to_monitor = NoCycle
    /\ alert_log = log

InitEpisode ==
    \E kind \in EpisodeKinds :
       InitScenario("UNKNOWN", [NoAlerts EXCEPT !.episode = kind])

\* the counters stop at 2
Counted(n, alert) == IF alert /\ n < 2 THEN n + 1 ELSE n

\* the log after a poll: the episode's alerts that reached channel.send, those
\* the send delivered, and those that reached it since the last failed poll
EpisodeLog(log, p) ==
    LET alert == Handed(p) /\ p.alert_title = EpisodeTitle(log.episode)
    IN  [episode |-> log.episode,
         attempts |-> Counted(log.attempts, alert),
         delivered |-> Counted(log.delivered, alert /\ p.dispatch = "delivered"),
         since_failure |-> IF ~p.success THEN 0
                           ELSE Counted(log.since_failure, alert)]

EpisodePoll(resp, channel_found, send_ok) ==
    /\ CheckAndNotify(resp, channel_found, send_ok)
    /\ alert_log' = EpisodeLog(alert_log, lastPoll')
    /\ UNCHANGED <<now, slashing_info_cache, slashing_params_cache, lastCall>>
    /\ UNCHANGED <<chain_prefs, governance_proposals_cache, upgrade_plan_cache,
                   lastGov, lastUpg, chains_to_monitor>>

NextEpisode ==
    \/ MonitorValidatorsBegin(EpisodeParams, EpisodeInfos)
    \/ \E r \in EpisodeResponses(alert_log.episode), found \in BOOLEAN, sent \in BOOLEAN :
          EpisodePoll(r, found, sent)

SpecEpisode == InitEpisode /\ [][NextEpisode]_vars

----------------------------------------------------------------------------
(* A validator that becomes jailed and stays jailed: every poll succeeds and
   reports jailed, the channel is found, and channel.send raises on the first
   attempt and works from then on. The task loop fires every interval, so
   the cycles go on forever; the clock of the model stops at MaxCycles *)

RetryResponses ==
    {r \in StakingResponses : r.ok /\ r.jailed /\ r.pubkey = "pk1"}

InitRetry ==
    \E status \in {"UNKNOWN", "Bonded"} :
       InitScenario(status, [NoAlerts EXCEPT !.episode = "jailed"])

MonitorValidatorsAgain(params_response, infos_response) ==
    /\ now' = IF now < MaxCycles THEN now + 1 ELSE now
    /\ RefreshAndQuery(params_response, infos_response)
    /\ UNCHANGED <<db, lastPoll, lastCall>>
    /\ UNCHANGED chainVars

RetryPoll(resp) == EpisodePoll(resp, TRUE, alert_log.attempts > 0)

NextRetry ==
    \/ \E p \in ParamsResponses, i \in InfosResponses :
          MonitorValidatorsAgain(p, i)
    \/ \E r \in RetryResponses : RetryPoll(r)

SpecRetry == InitRetry /\ [][NextRetry]_vars /\ WF_vars(NextRetry)

\* C36: the Jailed alert whose first send failed is eventually delivered
C36_EventualDelivery ==
    <>(lastPoll.alert_title = TitleJailed /\ lastPoll.dispatch = "delivered")

\* C36 as amended: the Jailed alert is attempted once, by the first poll that
\* sees the validator jailed; that poll persists JAILED although the send
\* failed, and no later cycle attempts or delivers the alert
C36_AlertNotRetried ==
    /\ alert_log.attempts <= 1
    /\ alert_log.delivered = 0
    /\ lastPoll.polled
       => /\ alert_log.attempts = 1
          /\ \A r \in db : r.status = "JAILED"

\* a later cycle, in which the send would work, sends nothing
C36_Witness ==
    /\ alert_log.attempts = 1
    /\ lastPoll.polled
    /\ lastPoll.old_status = "JAILED"
    /\ lastPoll.jailed
    /\ ~lastPoll.send_notification

----------------------------------------------------------------------------
(* A chain that keeps one upgrade plan scheduled: every poll of the plan
   endpoint answers 200 with that plan, answers 500, or raises *)

ScheduledPlan == [name |-> "v2", height |-> "100"]

PlanResponses ==
    {r \in UpgResponses :
        \/ r.raised
        \/ r.status_code = 500
        \/ r.status_code = 200 /\ r.plan = ScheduledPlan}

InitPlan ==
    /\ InitValidators
    /\ chain_prefs \in PrefTables
    /\ governance_proposals_cache = EmptyDict
    /\ upgrade_plan_cache = EmptyDict
    /\ lastGov = NoGov
    /\ lastUpg = NoUpg
    /\ chains_to_monitor = NoCycle
    /\ alert_log = [NoAlerts EXCEPT !.episode = "plan"]

\* the log after an upgrade poll: the announcements of the plan whose fan-out
\* ran, those a channel received, and those since the last failed poll
PlanLog(log, u) ==
    LET announced == u.notif = "new_plan" /\ ~u.embed.raised
                     /\ u.notif_plan.name = ScheduledPlan.name
        received == announced /\ \E d \in u.deliveries : d.result = "sent"
        failed == u.response.raised \/ u.response.status_code # 200
    IN  [episode |-> log.episode,
         attempts |-> Counted(log.attempts, announced),
         delivered |-> Counted(log.delivered, received),
         since_failure |-> IF failed THEN 0
                           ELSE Counted(log.since_failure, announced)]

PlanPoll(chain_name, response, current_height, outcomes) ==
    /\ chain_name \in get_all_chain_notification_chains(chain_prefs)
    /\ chain_name \in SupportedChains
    /\ "current_plan_endpoint" \in DOMAIN ChainConfig(chain_name)
    /\ UpgradePoll(chain_name, response, current_height, outcomes)
    /\ alert_log' = PlanLog(alert_log, lastUpg')
    /\ UNCHANGED <<chain_prefs, governance_proposals_cache, lastGov, chains_to_monitor>>
    /\ UNCHANGED <<db, now, slashing_info_cache, slashing_params_cache,
                   validators_to_monitor, lastPoll, lastCall>>

NextPlan ==
    \E r \in PlanResponses, h \in LatestHeights :
        \E o \in [Channels -> ChannelOutcomes] : PlanPoll("empe", r, h, o)

SpecPlan == InitPlan /\ [][NextPlan]_vars

\* C38: while the chain keeps the same plan scheduled, its new/changed-plan
\* notification reaches a channel in at most one poll, also when polls in
\* between get a 500 or a network exception
C38_PlanAnnouncedOnce == alert_log.delivered <= 1

----------------------------------------------------------------------------
(* The first upgrade poll of a chain after process start *)

\* the poll found no entry of the chain in the cache and the endpoint
\* answered 200 with a plan
FirstPollWithPlan(u) ==
    /\ u.polled
    /\ ~u.seeded
    /\ ~u.response.raised
    /\ u.response.status_code = 200
    /\ u.response.plan # NoPlan

====
